---- MODULE Spec2Model ----
(***************************************************************************)
(* A model of the CAG research system: the causal-graph data model         *)
(* (src/domain/causal_models.py), the workflow nodes (src/agents/nodes)    *)
(* and the workflow built by ParallelCAGGraphBuilder                       *)
(* (src/graph/cag_graph.py), with the reducers of src/agents/state.py.     *)
(*                                                                         *)
(* Free text (labels, hypotheses, reasoning, prompts) is left out: no      *)
(* branch of the modelled code reads it.  Confidence is kept in tenths     *)
(* (0.2 is 2, 0.3 is 3).                                                   *)
(***************************************************************************)
EXTENDS Integers, Sequences, FiniteSets, TLC

VARIABLES
    pc,                        \* the workflow node to run next ("api" in SpecGraph)
    nodes,                     \* causal_graph.nodes
    edges,                     \* causal_graph.edges
    next_id,                   \* stands for uuid4(): the next fresh edge id
    last,                      \* the last CausalGraph / CausalEdge call and its result
    focus_edge,                \* <<>> for None, <<e>> for the edge e
    supporting_evidence,
    contradicting_evidence,
    final_report,
    recursion_depth,
    max_depth,
    stop_reason,
    total_edges_investigated,
    node_visit_counts,
    audit_feedback,            \* the entries appended by the latest step
    action_hashes,
    error,
    llm_calls,                 \* the steps' roles that called the LLM in the latest step
    preferred_index,           \* FallbackLLMAdapter._preferred_index
    cooldown_until_by_index,   \* FallbackLLMAdapter._cooldown_until_by_index
    now,                       \* time.monotonic()
    call,                      \* per task: the locals of its _with_fallback call
    hist,                      \* what the calls so far did (read by the properties)
    writes,                    \* a superstep's partial updates and which are folded in
    searches                   \* searches the adversary has run, by (edge id, watched query)

vars == <<pc, nodes, edges, next_id, last, focus_edge, supporting_evidence,
          contradicting_evidence, final_report, recursion_depth, max_depth,
          stop_reason, total_edges_investigated, node_visit_counts,
          audit_feedback, action_hashes, error, llm_calls, preferred_index,
          cooldown_until_by_index, now, call, hist, writes, searches>>

llmVars == <<preferred_index, cooldown_until_by_index, now, call, hist>>

graphVars == <<nodes, edges, next_id>>

flowVars == <<focus_edge, supporting_evidence, contradicting_evidence,
              final_report, recursion_depth, max_depth, stop_reason,
              total_edges_investigated, node_visit_counts, audit_feedback,
              action_hashes, error, llm_calls>>

-----------------------------------------------------------------------------
(* Bounds of the model *)

\* calls made on a bare CausalGraph in SpecGraph
MaxCalls == 4
\* edge entries in one planner output
MaxPlanEdges == 2
\* search results one role gathers in one investigation
MaxEvidence == 1
\* the small max_depth a session is started with (beside the default)
ShallowDepth == 1
\* visit counts are kept exactly up to VisitCap and saturate there (the
\* auditor compares them with max_node_visits and max_node_visits - 2 only)
VisitCap == 16
\* recursion_depth and total_edges_investigated saturate at CounterCap (they
\* are compared with max_depth and with 5 only)
CounterCap == 8

\* providers wrapped by the FallbackLLMAdapter
NumProviders == 3
\* the last reading of time.monotonic() (seconds)
MaxTime == 2
\* calls made into the FallbackLLMAdapter
MaxLLMCalls == 2
\* the count at which the history of searches stops counting
SearchCap == 3
\* edges of a graph given to the queries of CausalGraph
MaxQueryEdges == 3

(* Program constants *)
start_index == 0
cooldown_seconds_default == 15
max_investigations_per_edge == 2
max_node_visits == 10
min_evidence_for_verdict == 2
max_queries == 3
max_recursion_depth == 5

(* Input domains *)
NodeIds == {"A", "B", "C"}
UnknownId == "X"
\* the ids used in calls on a bare graph
GraphIds == {"A", "B"}
NodeTypes == {"VARIABLE", "OUTCOME", "CONFOUNDER", "MEDIATOR"}
Statuses == {"PROPOSED", "INVESTIGATING", "VERIFIED", "FALSIFIED", "UNCLEAR"}
Verdicts == {"VERIFIED", "FALSIFIED", "UNCLEAR"}
Contents == {"c1", "c2"}
EvidenceIds == {"e1", "e2"}
\* the snippets the searches of a session bring
Snippets == {"c1"}
Queries == {"q1", "q2"}
LLMConfidences == {8}

Min(a, b) == IF a < b THEN a ELSE b

-----------------------------------------------------------------------------
(* src/domain/causal_models.py *)

CausalNode(id, type) == [id |-> id, node_type |-> type]

CausalEdge(id, s, t) ==
    [id |-> id, source_id |-> s, target_id |-> t, status |-> "PROPOSED",
     confidence |-> 0, investigation_count |-> 0,
     supporting_evidence |-> <<>>, contradicting_evidence |-> <<>>]

Evidence(id, content, supports) ==
    [id |-> id, content |-> content, supports_hypothesis |-> supports]

\* get_node: <<n>> for the first node with that id, <<>> for None
get_node(ns, node_id) ==
    LET hits == {i \in 1..Len(ns) : ns[i].id = node_id}
    IN IF hits = {} THEN <<>>
       ELSE <<ns[CHOOSE i \in hits : \A j \in hits : i <= j]>>

\* get_edge: the index of the first edge with that pair, 0 for None
get_edge(es, s, t) ==
    LET hits == {i \in 1..Len(es) : es[i].source_id = s /\ es[i].target_id = t}
    IN IF hits = {} THEN 0
       ELSE CHOOSE i \in hits : \A j \in hits : i <= j

add_node_result(ns, node) == get_node(ns, node.id) = <<>>

add_node(ns, node) ==
    IF get_node(ns, node.id) = <<>> THEN Append(ns, node) ELSE ns

add_edge_result(es, edge) == get_edge(es, edge.source_id, edge.target_id) = 0

\* add_edge without the look-up of the pair
add_edge_unchecked(es, edge) == Append(es, edge)

add_edge(es, edge) ==
    IF get_edge(es, edge.source_id, edge.target_id) = 0
    THEN Append(es, edge)
    ELSE es

update_edge_result(es, updated) ==
    get_edge(es, updated.source_id, updated.target_id) # 0

update_edge(es, updated) ==
    LET i == get_edge(es, updated.source_id, updated.target_id)
    IN IF i = 0 THEN es ELSE [es EXCEPT ![i] = updated]

\* the duplicate test with the comparison of the contents left out
IsDuplicateById(target_list, ev) ==
    \E k \in 1..Len(target_list) : target_list[k].id = ev.id

\* does target_list hold an item with the id or the content of ev
IsDuplicate(target_list, ev) ==
    \E k \in 1..Len(target_list) :
        target_list[k].id = ev.id \/ target_list[k].content = ev.content

add_evidence(edge, ev) ==
    IF ev.supports_hypothesis
    THEN IF IsDuplicate(edge.supporting_evidence, ev)
         THEN edge
         ELSE [edge EXCEPT !.supporting_evidence = Append(@, ev)]
    ELSE IF IsDuplicate(edge.contradicting_evidence, ev)
         THEN edge
         ELSE [edge EXCEPT !.contradicting_evidence = Append(@, ev)]

\* is_dag: Kahn's algorithm.  in_degree and adj are keyed by the node ids;
\* an edge counts only when both of its ends are keys.
KnownIds(ns) == {ns[i].id : i \in 1..Len(ns)}

RECURSIVE AdjFrom(_, _, _, _)
AdjFrom(es, ids, n, i) ==
    IF i > Len(es) THEN <<>>
    ELSE IF es[i].source_id = n /\ es[i].target_id \in ids
         THEN <<es[i].target_id>> \o AdjFrom(es, ids, n, i + 1)
         ELSE AdjFrom(es, ids, n, i + 1)

InDegree(es, ids) ==
    [n \in ids |->
        Cardinality({i \in 1..Len(es) :
                        es[i].source_id \in ids /\ es[i].target_id = n})]

\* the ids with in-degree 0, in the order of the nodes list (dict order)
RECURSIVE ZeroQueue(_, _, _)
ZeroQueue(ns, deg, i) ==
    IF i > Len(ns) THEN <<>>
    ELSE IF deg[ns[i].id] = 0
         THEN <<ns[i].id>> \o ZeroQueue(ns, deg, i + 1)
         ELSE ZeroQueue(ns, deg, i + 1)

\* one pass over the neighbours of the popped node: <<in_degree, queue>>
RECURSIVE Relax(_, _, _)
Relax(nbrs, deg, queue) ==
    IF nbrs = <<>> THEN <<deg, queue>>
    ELSE LET m == Head(nbrs)
             d == [deg EXCEPT ![m] = @ - 1]
         IN Relax(Tail(nbrs), d, IF d[m] = 0 THEN Append(queue, m) ELSE queue)

RECURSIVE Kahn(_, _, _, _, _)
Kahn(es, ids, queue, deg, visited) ==
    IF queue = <<>> THEN visited
    ELSE LET r == Relax(AdjFrom(es, ids, Head(queue), 1), deg, Tail(queue))
         IN Kahn(es, ids, r[2], r[1], visited + 1)

\* is_dag with every edge into a node counted in its in-degree, whatever
\* the edge starts from
is_dag_unrestricted(ns, es) ==
    IF ns = <<>> THEN TRUE
    ELSE LET ids == KnownIds(ns)
             deg == [n \in ids |->
                        Cardinality({i \in 1..Len(es) : es[i].target_id = n})]
         IN Kahn(es, ids, ZeroQueue(ns, deg, 1), deg, 0) = Len(ns)

is_dag(ns, es) ==
    IF ns = <<>> THEN TRUE
    ELSE LET ids == KnownIds(ns)
             deg == InDegree(es, ids)
         IN Kahn(es, ids, ZeroQueue(ns, deg, 1), deg, 0) = Len(ns)

\* get_edges_by_status: the edges with the status, in the order of graph.edges
RECURSIVE get_edges_by_status(_, _)
get_edges_by_status(es, status) ==
    IF es = <<>> THEN <<>>
    ELSE (IF Head(es).status = status THEN <<Head(es)>> ELSE <<>>)
         \o get_edges_by_status(Tail(es), status)

\* a summary in which "unclear" counts the edges get_unverified_edges returns
get_verification_summary_unverified(es) ==
    LET verified == Len(get_edges_by_status(es, "VERIFIED"))
        falsified == Len(get_edges_by_status(es, "FALSIFIED"))
    IN [total_edges |-> Len(es),
        verified |-> verified,
        falsified |-> falsified,
        unclear |-> Len(get_edges_by_status(es, "UNCLEAR"))
                    + Len(get_edges_by_status(es, "PROPOSED")),
        proposed |-> Len(get_edges_by_status(es, "PROPOSED")),
        investigating |-> Len(get_edges_by_status(es, "INVESTIGATING")),
        completion_rate |-> IF Len(es) > 0
                            THEN <<(verified + falsified) * 100, Len(es)>>
                            ELSE <<0, 1>>]

\* get_verification_summary; completion_rate is the fraction
\* <<numerator, denominator>> whose value the code computes as a float
get_verification_summary(es) ==
    LET verified == Len(get_edges_by_status(es, "VERIFIED"))
        falsified == Len(get_edges_by_status(es, "FALSIFIED"))
    IN [total_edges |-> Len(es),
        verified |-> verified,
        falsified |-> falsified,
        unclear |-> Len(get_edges_by_status(es, "UNCLEAR")),
        proposed |-> Len(get_edges_by_status(es, "PROPOSED")),
        investigating |-> Len(get_edges_by_status(es, "INVESTIGATING")),
        completion_rate |-> IF Len(es) > 0
                            THEN <<(verified + falsified) * 100, Len(es)>>
                            ELSE <<0, 1>>]

-----------------------------------------------------------------------------
(* src/agents/state.py: the reducers *)

\* replace_evidence: the update replaces the buffer; within the update an
\* item whose id was already seen is dropped
RECURSIVE DedupById(_, _)
DedupById(new, seen) ==
    IF new = <<>> THEN <<>>
    ELSE IF Head(new).id \in seen
         THEN DedupById(Tail(new), seen)
         ELSE <<Head(new)>> \o DedupById(Tail(new), seen \cup {Head(new).id})

\* a reducer that appends the update to the buffer
replace_evidence_append(existing, new) == existing \o DedupById(new, {})

replace_evidence(existing, new) == DedupById(new, {})

\* increment_counter: the larger of the two
increment_counter(existing, new) == IF existing >= new THEN existing ELSE new

\* A dict is a sequence of <<key, value>> pairs in insertion order.
DictKeys(d) == {d[i][1] : i \in 1..Len(d)}

DictGet(d, key, default) ==
    IF key \in DictKeys(d)
    THEN d[CHOOSE i \in 1..Len(d) : d[i][1] = key][2]
    ELSE default

\* d[key] = value: in place when the key is there, at the end otherwise
DictSet(d, key, value) ==
    IF key \in DictKeys(d)
    THEN [i \in 1..Len(d) |-> IF d[i][1] = key THEN <<key, value>> ELSE d[i]]
    ELSE Append(d, <<key, value>>)

\* {**a, **b}
RECURSIVE DictUpdate(_, _)
DictUpdate(a, b) ==
    IF b = <<>> THEN a
    ELSE DictUpdate(DictSet(a, Head(b)[1], Head(b)[2]), Tail(b))

\* a dict update in the place of the sum: the later delta replaces the count
merge_counter_map_overwrite(existing, new) == DictUpdate(existing, new)

\* merge_counter_map: the update holds deltas, added key by key (counts
\* are kept up to VisitCap)
RECURSIVE merge_counter_map(_, _)
merge_counter_map(existing, new) ==
    IF new = <<>> THEN existing
    ELSE LET key == Head(new)[1]
             delta == Head(new)[2]
         IN merge_counter_map(
                DictSet(existing, key,
                        Min(DictGet(existing, key, 0) + delta, VisitCap)),
                Tail(new))

\* compute_action_hash("search", {edge_id, query})
compute_action_hash(edge_id, query) == <<edge_id, query>>

\* merge_action_hashes on maps hash -> count
merge_action_hashes(existing, new) ==
    [h \in DOMAIN existing \cup DOMAIN new |->
        (IF h \in DOMAIN existing THEN existing[h] ELSE 0)
        + (IF h \in DOMAIN new THEN new[h] ELSE 0)]

(* src/agents/nodes/auditor.py *)

increment_node_visit(node_name) == <<<<node_name, 1>>>>

\* _check_depth: "stop", "warning" or "none"
check_depth(depth, maxd) ==
    IF depth >= maxd THEN "stop"
    ELSE IF depth >= maxd - 1 THEN "warning"
    ELSE "none"

\* _check_loops
check_loops(hashes) ==
    IF Cardinality(DOMAIN hashes) > 50 THEN "warning"
    ELSE IF \E h \in DOMAIN hashes : hashes[h] > 2 THEN "warning"
    ELSE "none"

\* _check_visits with the CRITICAL test alone: any count at the maximum
check_visits_any(counts) ==
    IF \E i \in 1..Len(counts) : counts[i][2] >= max_node_visits
    THEN "critical"
    ELSE IF \E i \in 1..Len(counts) : counts[i][2] >= max_node_visits - 2
         THEN "warning"
         ELSE "none"

\* _check_visits with the CRITICAL test alone and no warning
check_visits_critical_only(counts) ==
    IF \E i \in 1..Len(counts) : counts[i][2] >= max_node_visits
    THEN "critical" ELSE "none"

\* _check_visits: the first count, in dict order, that is at least
\* max_node_visits - 2 decides
check_visits(counts) ==
    LET near == {i \in 1..Len(counts) : counts[i][2] >= max_node_visits - 2}
    IN IF near = {} THEN "none"
       ELSE LET i == CHOOSE k \in near : \A j \in near : k <= j
            IN IF counts[i][2] >= max_node_visits THEN "critical" ELSE "warning"

CountStatus(es, st) == Cardinality({i \in 1..Len(es) : es[i].status = st})

\* _check_progress
check_progress(es, investigated) ==
    IF Len(es) = 0 THEN "no_edges"
    ELSE IF investigated > 5
            /\ CountStatus(es, "VERIFIED") + CountStatus(es, "FALSIFIED") = 0
         THEN "no_verdicts"
         ELSE "none"

\* AuditorNode.__call__: the update it returns
auditor_update(depth, maxd, hashes, counts, es, investigated) ==
    IF check_depth(depth, maxd) = "stop"
    THEN [stop_reason |-> <<"max_depth">>, error |-> <<>>,
          audit_feedback |-> <<"depth_stop">>]
    ELSE LET issues ==
                (IF check_depth(depth, maxd) = "warning"
                 THEN <<"depth_warning">> ELSE <<>>)
                \o (IF check_loops(hashes) = "warning"
                    THEN <<"loop_warning">> ELSE <<>>)
                \o (IF check_visits(counts) = "critical"
                    THEN <<"visit_critical">>
                    ELSE IF check_visits(counts) = "warning"
                         THEN <<"visit_warning">> ELSE <<>>)
                \o (IF check_progress(es, investigated) = "none"
                    THEN <<>> ELSE <<check_progress(es, investigated)>>)
         IN [stop_reason |-> <<>>,
             error |-> IF \E k \in 1..Len(issues) : issues[k] = "visit_critical"
                       THEN <<"critical">> ELSE <<>>,
             audit_feedback |-> IF issues = <<>> THEN <<"all_passed">> ELSE issues]

(* src/agents/nodes/edge_selector.py *)

\* _get_candidate_edges with the test of investigation_count left out
get_candidate_edges_any_count(es) ==
    SelectSeq([i \in 1..Len(es) |-> i],
              LAMBDA i : es[i].status \notin {"VERIFIED", "FALSIFIED"})

\* _get_candidate_edges with the test of the status left out
get_candidate_edges_any_status(es) ==
    SelectSeq([i \in 1..Len(es) |-> i],
              LAMBDA i : es[i].investigation_count < max_investigations_per_edge)

\* _get_candidate_edges: the indices of the investigable edges, in order
get_candidate_edges(es) ==
    SelectSeq([i \in 1..Len(es) |-> i],
              LAMBDA i : /\ es[i].status \notin {"VERIFIED", "FALSIFIED"}
                         /\ es[i].investigation_count < max_investigations_per_edge)

IsOutcome(ns, id) ==
    get_node(ns, id) # <<>> /\ get_node(ns, id)[1].node_type = "OUTCOME"

\* the score without the bonus for a target that is an OUTCOME node
score_no_target_bonus(ns, edge) ==
    (IF edge.status = "PROPOSED" THEN 100
     ELSE IF edge.status = "UNCLEAR" THEN 50 ELSE 0)
    - edge.investigation_count * 20
    + (IF IsOutcome(ns, edge.source_id) THEN 20 ELSE 0)

score(ns, edge) ==
    (IF edge.status = "PROPOSED" THEN 100
     ELSE IF edge.status = "UNCLEAR" THEN 50 ELSE 0)
    - edge.investigation_count * 20
    + (IF IsOutcome(ns, edge.target_id) THEN 30 ELSE 0)
    + (IF IsOutcome(ns, edge.source_id) THEN 20 ELSE 0)

\* an insertion that puts an entry before the entries of equal score
RECURSIVE InsertDescUnstable(_, _)
InsertDescUnstable(sorted, x) ==
    IF sorted = <<>> THEN <<x>>
    ELSE IF Head(sorted)[1] > x[1]
         THEN <<Head(sorted)>> \o InsertDescUnstable(Tail(sorted), x)
         ELSE <<x>> \o sorted

\* list.sort(key=score, reverse=True): stable, so an entry goes behind the
\* entries whose score is at least its own
RECURSIVE InsertDesc(_, _)
InsertDesc(sorted, x) ==
    IF sorted = <<>> THEN <<x>>
    ELSE IF Head(sorted)[1] >= x[1]
         THEN <<Head(sorted)>> \o InsertDesc(Tail(sorted), x)
         ELSE <<x>> \o sorted

RECURSIVE SortDesc(_, _)
SortDesc(scored, k) ==
    IF k = 0 THEN <<>>
    ELSE InsertDesc(SortDesc(scored, k - 1), scored[k])

\* _select_best_edge: the index of the selected edge
select_best_edge(ns, es, candidates) ==
    LET scored == [k \in 1..Len(candidates) |->
                       <<score(ns, es[candidates[k]]), candidates[k]>>]
    IN SortDesc(scored, Len(scored))[1][2]

\* EdgeSelectorNode.__call__ without the marking of the selected edge
selector_update_no_mark(ns, es) ==
    IF es = <<>> \/ get_candidate_edges(es) = <<>>
    THEN [selected |-> FALSE, edges |-> es, focus_edge |-> <<>>,
          audit_feedback |-> <<IF es = <<>> THEN "selector_no_edges"
                               ELSE "selector_all_resolved">>]
    ELSE LET i == select_best_edge(ns, es, get_candidate_edges(es))
         IN [selected |-> TRUE, edges |-> es, focus_edge |-> <<es[i]>>,
             audit_feedback |-> <<"selector_investigating">>]

\* EdgeSelectorNode.__call__: the update it returns
selector_update(ns, es) ==
    IF es = <<>> \/ get_candidate_edges(es) = <<>>
    THEN [selected |-> FALSE, edges |-> es, focus_edge |-> <<>>,
          audit_feedback |-> <<IF es = <<>> THEN "selector_no_edges"
                               ELSE "selector_all_resolved">>]
    ELSE LET i == select_best_edge(ns, es, get_candidate_edges(es))
             selected == [es[i] EXCEPT !.status = "INVESTIGATING"]
         IN [selected |-> TRUE, edges |-> update_edge(es, selected),
             focus_edge |-> <<selected>>,
             audit_feedback |-> <<"selector_investigating">>]

(* src/agents/nodes/adversary.py, supporter.py *)

\* the sequences over S of length at most n
RECURSIVE SeqsUpTo(_, _)
SeqsUpTo(S, n) ==
    IF n = 0 THEN {<<>>}
    ELSE LET shorter == SeqsUpTo(S, n - 1)
         IN shorter \cup {Append(q, x) : q \in {r \in shorter : Len(r) = n - 1}, x \in S}

\* what _generate_attack_queries can return: the model's list cut to
\* max_queries, or the three fallback queries
AttackQueryLists ==
    (SeqsUpTo(Queries, max_queries) \ {<<>>}) \cup {<<"f1", "f2", "f3">>}

\* the loop over the attack queries: <<action_counts, action_deltas, searches run>>
RECURSIVE attack_loop(_, _, _, _, _)
attack_loop(queries, edge_id, action_counts, action_deltas, executed) ==
    IF queries = <<>> THEN <<action_counts, action_deltas, executed>>
    ELSE LET action_key == compute_action_hash(edge_id, Head(queries))
             seen == IF action_key \in DOMAIN action_counts
                     THEN action_counts[action_key] ELSE 0
             one == [h \in {action_key} |-> 1]
         IN IF seen >= 2
            THEN attack_loop(Tail(queries), edge_id, action_counts,
                             action_deltas, executed)
            ELSE attack_loop(Tail(queries), edge_id,
                             merge_action_hashes(action_counts, one),
                             merge_action_hashes(action_deltas, one),
                             executed + 1)

\* the snippets n searches can bring, in order (a search gives up to three
\* citations, and fewer when it fails)
SnippetLists(n) == SeqsUpTo(Snippets, Min(MaxEvidence, 3 * n))

\* the investigation a focus edge is in: its id and its investigation_count
\* (the judge adds one to the count at the end of every investigation)
investigation(focus) ==
    IF focus = <<>> THEN <<>> ELSE <<focus[1].id, focus[1].investigation_count>>

\* Evidence objects get fresh ids (uuid4): the role, the investigation and
\* the place in the list
MakeEvidence(role, inv, snippets, supports) ==
    [k \in 1..Len(snippets) |-> Evidence(<<role, inv, k>>, snippets[k], supports)]

\* AdversarialResearcherNode.__call__: the updates it can return
adversary_updates(focus, hashes) ==
    IF focus = <<>>
    THEN {[has_evidence |-> FALSE, evidence |-> <<>>, action_hashes |-> <<>>,
           audit_feedback |-> <<"adversary_no_edge">>]}
    ELSE UNION {
           {[has_evidence |-> TRUE,
             evidence |-> MakeEvidence("adv", investigation(focus), sn, FALSE),
             action_hashes |-> r[2],
             audit_feedback |-> <<"adversary_found">>] : sn \in SnippetLists(r[3])} :
           r \in {attack_loop(qs, focus[1].id, hashes, <<>>, 0) : qs \in AttackQueryLists}}

\* SupporterResearcherNode.__call__: the updates it can return (it runs
\* every query: one to max_queries searches)
supporter_updates(focus) ==
    IF focus = <<>>
    THEN {[has_evidence |-> FALSE, evidence |-> <<>>,
           audit_feedback |-> <<"supporter_no_edge">>]}
    ELSE {[has_evidence |-> TRUE,
           evidence |-> MakeEvidence("sup", investigation(focus), sn, TRUE),
           audit_feedback |-> <<"supporter_found">>] : sn \in SnippetLists(1)}

(* src/agents/nodes/judge.py *)

Judgment(verdict, confidence) == [verdict |-> verdict, confidence |-> confidence]

\* what _adjudicate can return: a verdict of the model, or UNCLEAR at 0.3
\* when the call fails
Judgments ==
    {Judgment(v, c) : v \in Verdicts, c \in LLMConfidences}
    \cup {Judgment("UNCLEAR", 3)}

\* an except branch that counts the failure against the hypothesis
adjudicate_failure_falsifies == Judgment("FALSIFIED", 3)

\* _adjudicate, the except branch: the judgment returned when the call to
\* the model raises
adjudicate_failure == Judgment("UNCLEAR", 3)

\* _adjudicate: the judgment, and whether the call to the model failed (the
\* reasoning, which the judge's feedback line quotes, says so)
Adjudications ==
    {[judgment |-> Judgment(v, c), failed |-> FALSE] :
        v \in Verdicts, c \in LLMConfidences}
    \cup {[judgment |-> adjudicate_failure, failed |-> TRUE]}

RECURSIVE add_all_evidence(_, _)
add_all_evidence(edge, evs) ==
    IF evs = <<>> THEN edge
    ELSE add_all_evidence(add_evidence(edge, Head(evs)), Tail(evs))

\* _update_edge without the increment of investigation_count
update_edge_no_count(edge, judgment, supporting, contradicting) ==
    add_all_evidence(
        add_all_evidence(
            [edge EXCEPT !.status = judgment.verdict,
                         !.confidence = judgment.confidence],
            supporting),
        contradicting)

\* _update_edge
judge_update_edge(edge, judgment, supporting, contradicting) ==
    add_all_evidence(
        add_all_evidence(
            [edge EXCEPT !.status = judgment.verdict,
                         !.confidence = judgment.confidence,
                         !.investigation_count = @ + 1],
            supporting),
        contradicting)

\* _insufficient_evidence without the increment of investigation_count
insufficient_evidence_no_count(edge) ==
    [edge EXCEPT !.status = "UNCLEAR", !.confidence = 2]

\* _insufficient_evidence: the edge it writes
insufficient_evidence(edge) ==
    [edge EXCEPT !.status = "UNCLEAR", !.confidence = 2,
                 !.investigation_count = @ + 1]

\* DialecticalJudgeNode.__call__ without the test on the amount of evidence
judge_updates_no_floor(es, focus, supporting, contradicting, investigated) ==
    IF focus = <<>>
    THEN {[judged |-> FALSE, edges |-> es, total_edges_investigated |-> investigated,
           audit_feedback |-> <<"judge_no_edge">>, llm_calls |-> <<>>]}
    ELSE {[judged |-> TRUE,
           edges |-> update_edge(es, judge_update_edge(focus[1], a.judgment,
                                                       supporting, contradicting)),
           total_edges_investigated |-> investigated + 1,
           audit_feedback |-> <<IF a.failed THEN "judge_llm_failed"
                                ELSE "judge_verdict">>,
           llm_calls |-> <<"judge">>] :
              a \in Adjudications}

\* DialecticalJudgeNode.__call__: the updates it can return
judge_updates(es, focus, supporting, contradicting, investigated) ==
    IF focus = <<>>
    THEN {[judged |-> FALSE, edges |-> es, total_edges_investigated |-> investigated,
           audit_feedback |-> <<"judge_no_edge">>, llm_calls |-> <<>>]}
    ELSE IF Len(supporting) + Len(contradicting) < min_evidence_for_verdict
    THEN {[judged |-> TRUE,
           edges |-> update_edge(es, insufficient_evidence(focus[1])),
           total_edges_investigated |-> investigated + 1,
           audit_feedback |-> <<"judge_insufficient">>, llm_calls |-> <<>>]}
    ELSE {[judged |-> TRUE,
           edges |-> update_edge(es, judge_update_edge(focus[1], a.judgment,
                                                       supporting, contradicting)),
           total_edges_investigated |-> investigated + 1,
           audit_feedback |-> <<IF a.failed THEN "judge_llm_failed"
                                ELSE "judge_verdict">>,
           llm_calls |-> <<"judge">>] :
              a \in Adjudications}

(* src/agents/nodes/causal_planner.py *)

\* the node lists and the edge lists the planner's model call can return
PlannerNodeLists ==
    {<<CausalNode("A", "VARIABLE"), CausalNode("B", "MEDIATOR"),
       CausalNode("C", "OUTCOME")>>}

\* the <<source_id, target_id>> of an edge in the model's answer: edges
\* between the nodes, a self-loop, an edge with a missing id, and an edge
\* from an id that is no node
PlannerPairs ==
    {<<"A", "B">>, <<"B", "C">>, <<"A", "C">>, <<"C", "B">>, <<"B", "B">>,
     <<"", "B">>, <<UnknownId, "B">>}

PlannerEdgeLists == SeqsUpTo(PlannerPairs, MaxPlanEdges)

RECURSIVE add_nodes(_, _)
add_nodes(ns, node_data) ==
    IF node_data = <<>> THEN ns
    ELSE add_nodes(add_node(ns, Head(node_data)), Tail(node_data))

\* the result of the loop with one more skipped edge, or one more cyclic edge
PlanSkipped(r) == <<r[1], r[2], r[3] + 1, r[4]>>
PlanCyclic(r) == <<r[1], r[2], r[3], r[4] + 1>>

\* the loop over result.edges without the is_dag test
RECURSIVE add_plan_edges_no_dag(_, _, _, _)
add_plan_edges_no_dag(ns, es, edge_data, id) ==
    IF edge_data = <<>> THEN <<es, id, 0, 0>>
    ELSE LET source_id == Head(edge_data)[1]
             target_id == Head(edge_data)[2]
             edge == CausalEdge(id, source_id, target_id)
         IN IF source_id = "" \/ target_id = ""
            THEN PlanSkipped(add_plan_edges_no_dag(ns, es, Tail(edge_data), id))
            ELSE IF get_node(ns, source_id) = <<>> \/ get_node(ns, target_id) = <<>>
            THEN PlanSkipped(add_plan_edges_no_dag(ns, es, Tail(edge_data), id))
            ELSE IF ~add_edge_result(es, edge)
            THEN add_plan_edges_no_dag(ns, es, Tail(edge_data), id)
            ELSE add_plan_edges_no_dag(ns, add_edge(es, edge), Tail(edge_data), id + 1)

\* the loop over result.edges: <<edges, next fresh id, len(skipped_edges),
\* len(cycle_edges)>> (the id of an edge that is refused or popped again is
\* seen nowhere, so it is not used up)
RECURSIVE add_plan_edges(_, _, _, _)
add_plan_edges(ns, es, edge_data, id) ==
    IF edge_data = <<>> THEN <<es, id, 0, 0>>
    ELSE LET source_id == Head(edge_data)[1]
             target_id == Head(edge_data)[2]
             edge == CausalEdge(id, source_id, target_id)
         IN IF source_id = "" \/ target_id = ""
            THEN PlanSkipped(add_plan_edges(ns, es, Tail(edge_data), id))
            ELSE IF get_node(ns, source_id) = <<>> \/ get_node(ns, target_id) = <<>>
            THEN PlanSkipped(add_plan_edges(ns, es, Tail(edge_data), id))
            ELSE IF ~add_edge_result(es, edge)
            THEN add_plan_edges(ns, es, Tail(edge_data), id)
            ELSE IF ~is_dag(ns, add_edge(es, edge))
            THEN PlanCyclic(add_plan_edges(ns, es, Tail(edge_data), id))
            ELSE add_plan_edges(ns, add_edge(es, edge), Tail(edge_data), id + 1)

\* the audit_feedback of _create_initial_graph
planner_feedback(skipped, cyclic) ==
    <<"planner_created">>
    \o (IF skipped > 0 THEN <<"planner_skipped_invalid">> ELSE <<>>)
    \o (IF cyclic > 0 THEN <<"planner_removed_cyclic">> ELSE <<>>)

(* src/agents/nodes/writer.py *)

\* WriterNode.__call__ with the manual report of the except branch left out
writer_reports_no_fallback == {"report", "None"}

\* WriterNode.__call__: the report it returns, from the model's outline or,
\* when that call fails, built from the graph
writer_reports == {"report", "fallback_report"}

(* src/adapters/fallback_llm_adapter.py *)

Providers == 0..(NumProviders - 1)

\* what one attempt on a provider can bring: a result, or an error
\*   rate_limited   AdapterError over HTTP 429 with a Retry-After of s > 0
\*   transient      AdapterError over another transient HTTP status (or 429
\*                  without a usable Retry-After)
\*   timeout        a timeout, a transport error or a JSON decoding error,
\*                  wrapped in AdapterError (or a bare httpx timeout or
\*                  transport error)
\*   adapter_error  AdapterError over a model-not-found answer, or over no
\*                  HTTP error at all
\*   denied         AdapterError over an HTTP status that is neither
\*                  transient nor model-not-found (401, 403)
\*   fatal          an exception that is no AdapterError and no httpx
\*                  timeout or transport error
ErrorKinds == {"rate_limited", "transient", "timeout", "adapter_error", "denied",
               "fatal"}
Outcomes == {"ok"} \cup ErrorKinds
RetryAfters == {1}

\* a classification that refuses every error
never_fallback(kind) == FALSE

\* _should_fallback
should_fallback(kind) ==
    kind \in {"rate_limited", "transient", "timeout", "adapter_error"}

\* _retry_after_seconds: <<>> for None
retry_after_seconds(kind, s) == IF kind = "rate_limited" THEN <<s>> ELSE <<>>

\* _is_in_cooldown at time t: <<result, the cooldown map afterwards>>
is_in_cooldown(cooldown, t, index) ==
    IF index \notin DOMAIN cooldown THEN <<FALSE, cooldown>>
    ELSE IF t >= cooldown[index]
         THEN <<FALSE, [i \in (DOMAIN cooldown) \ {index} |-> cooldown[i]]>>
         ELSE <<TRUE, cooldown>>

\* _next_index, first loop: <<<<idx>> or <<>>, the cooldown map afterwards>>
RECURSIVE next_not_cooling(_, _, _, _, _)
next_not_cooling(cooldown, t, current_index, tried, offset) ==
    IF offset > NumProviders THEN <<<<>>, cooldown>>
    ELSE LET idx == (current_index + offset) % NumProviders
         IN IF idx \in tried
            THEN next_not_cooling(cooldown, t, current_index, tried, offset + 1)
            ELSE LET r == is_in_cooldown(cooldown, t, idx)
                 IN IF ~r[1] THEN <<<<idx>>, r[2]>>
                    ELSE next_not_cooling(r[2], t, current_index, tried, offset + 1)

\* _next_index, second loop
RECURSIVE next_untried(_, _, _)
next_untried(current_index, tried, offset) ==
    IF offset > NumProviders THEN <<>>
    ELSE LET idx == (current_index + offset) % NumProviders
         IN IF idx \notin tried THEN <<idx>>
            ELSE next_untried(current_index, tried, offset + 1)

\* a _next_index whose first loop does not look at tried
next_index_ignoring_tried(cooldown, t, current_index, tried) ==
    LET r == next_not_cooling(cooldown, t, current_index, {}, 1)
    IN IF r[1] # <<>> THEN r
       ELSE <<next_untried(current_index, tried, 1), r[2]>>

\* a _next_index without the first loop: the next untried provider, cooling
\* down or not
next_index_first_untried(cooldown, t, current_index, tried) ==
    <<next_untried(current_index, tried, 1), cooldown>>

\* _next_index: <<<<idx>> or <<>> for None, the cooldown map afterwards>>
next_index(cooldown, t, current_index, tried) ==
    LET r == next_not_cooling(cooldown, t, current_index, tried, 1)
    IN IF r[1] # <<>> THEN r
       ELSE <<next_untried(current_index, tried, 1), r[2]>>

\* the cooldown map after an error e of provider idx that leads to a fallback
set_cooldown(cooldown, t, idx, kind, s) ==
    IF retry_after_seconds(kind, s) # <<>>
    THEN [i \in (DOMAIN cooldown) \cup {idx} |->
             IF i = idx THEN t + retry_after_seconds(kind, s)[1] ELSE cooldown[i]]
    ELSE IF kind = "transient"
    THEN [i \in (DOMAIN cooldown) \cup {idx} |->
             IF i = idx THEN t + cooldown_seconds_default ELSE cooldown[i]]
    ELSE cooldown

\* the tasks that call the shared instance: the two that
\* _run_parallel_investigation starts together with asyncio.gather
Tasks == {"adversary", "supporter"}

\* the locals of one _with_fallback call (and how the call ended)
NoError == [provider |-> 0, kind |-> "none"]

\* pc is "idle", "awaiting" (suspended in `await fn(adapter)`), "returned" or
\* "raised" (the call raised last_error); eligible says that every error of
\* the call so far was of a kind in FallbackEligible
IdleCall ==
    [pc |-> "idle", idx |-> 0, tried |-> {}, first |-> 0, attempts |-> 0,
     last_error |-> NoError, eligible |-> TRUE]

\* the kinds of error the fallback is meant for
FallbackEligible == {"rate_limited", "transient", "timeout", "adapter_error"}

\* _with_fallback up to the first await: the call's locals and the cooldown map
with_fallback_begin(preferred, cooldown, t) ==
    LET r == is_in_cooldown(cooldown, t, preferred)
        n == next_index(r[2], t, preferred, {})
        idx == IF r[1] /\ n[1] # <<>> THEN n[1][1] ELSE preferred
    IN [call |-> [pc |-> "awaiting", idx |-> idx, tried |-> {idx}, first |-> idx,
                  attempts |-> 1, last_error |-> NoError, eligible |-> TRUE],
        cooldown |-> IF r[1] THEN n[2] ELSE r[2]]

\* _with_fallback from the return of `await fn(adapter)` to the next await
\* or to the end of the call
with_fallback_resume(c, preferred, cooldown, t, outcome, s) ==
    IF outcome = "ok"
    THEN [call |-> [c EXCEPT !.pc = "returned"], preferred |-> c.idx,
          cooldown |-> cooldown]
    ELSE LET e == [provider |-> c.idx, kind |-> outcome]
             failed == [c EXCEPT !.last_error = e,
                                 !.eligible = @ /\ outcome \in FallbackEligible]
         IN IF should_fallback(outcome) /\ Cardinality(c.tried) < NumProviders
            THEN LET cooled == set_cooldown(cooldown, t, c.idx, outcome, s)
                     n == next_index(cooled, t, c.idx, c.tried)
                 IN IF n[1] = <<>>
                    THEN [call |-> [failed EXCEPT !.pc = "raised"],
                          preferred |-> preferred, cooldown |-> n[2]]
                    ELSE IF c.attempts >= NumProviders
                    THEN [call |-> [failed EXCEPT !.pc = "raised", !.idx = n[1][1]],
                          preferred |-> n[1][1], cooldown |-> n[2]]
                    ELSE [call |-> [failed EXCEPT !.idx = n[1][1],
                                                  !.tried = @ \cup {n[1][1]},
                                                  !.attempts = @ + 1],
                          preferred |-> n[1][1], cooldown |-> n[2]]
            ELSE [call |-> [failed EXCEPT !.pc = "raised"],
                  preferred |-> preferred, cooldown |-> cooldown]

\* the record of the calls made so far that the properties read
\*   last_success  the provider that last returned a result
\*   sticky        a call failed on provider 0 with 429 and Retry-After and
\*                 then succeeded on provider 1, and provider 0 has not
\*                 succeeded since
\*   one_failed    provider 1 has failed since then
\*   calls         the number of calls begun
NoHistory == [last_success |-> start_index % NumProviders, sticky |-> FALSE,
              one_failed |-> FALSE, calls |-> 0]

record_outcome(h, c, outcome) ==
    IF outcome = "ok"
    THEN IF c.idx = 0
         THEN [h EXCEPT !.last_success = 0, !.sticky = FALSE, !.one_failed = FALSE]
         ELSE IF /\ c.idx = 1 /\ c.first = 0 /\ c.attempts = 2
                 /\ c.last_error = [provider |-> 0, kind |-> "rate_limited"]
              THEN [h EXCEPT !.last_success = 1, !.sticky = TRUE, !.one_failed = FALSE]
              ELSE [h EXCEPT !.last_success = c.idx]
    ELSE IF c.idx = 1 THEN [h EXCEPT !.one_failed = h.sticky] ELSE h

LLMIdle ==
    /\ preferred_index = start_index % NumProviders
    /\ cooldown_until_by_index = <<>>
    /\ now = 0
    /\ call = [t \in Tasks |-> IdleCall]
    /\ hist = NoHistory

-----------------------------------------------------------------------------
(* Calls on a bare CausalGraph: SpecGraph *)

NoEvidence == Evidence("-", "-", FALSE)

\* no superstep with several partial updates is under way
NoWrites == [node_visit_counts |-> <<>>, action_hashes |-> <<>>,
             pending |-> <<>>, applied |-> {}]

\* the adversary has run no search yet
NoSearches == <<>>

\* the query whose searches are counted over the session
WatchedQuery == "q1"

\* the searches of one adversary run with the watched query, added to those
\* run before (counted up to SearchCap)
record_searches(before, executed) ==
    LET watched == {h \in DOMAIN executed : h[2] = WatchedQuery}
    IN [h \in DOMAIN before \cup watched |->
           Min(SearchCap, (IF h \in DOMAIN before THEN before[h] ELSE 0)
                          + (IF h \in watched THEN executed[h] ELSE 0))]

\* n is the number of calls made so far
Call(n, op, s, t, ev, ret) ==
    [n |-> n, op |-> op, src |-> s, tgt |-> t, ev |-> ev, ret |-> ret]

FlowIdle ==
    /\ focus_edge = <<>>
    /\ supporting_evidence = <<>>
    /\ contradicting_evidence = <<>>
    /\ final_report = "None"
    /\ recursion_depth = 0
    /\ max_depth = 1
    /\ stop_reason = "None"
    /\ total_edges_investigated = 0
    /\ node_visit_counts = <<>>
    /\ audit_feedback = <<>>
    /\ action_hashes = <<>>
    /\ error = "None"
    /\ llm_calls = <<>>
    /\ writes = NoWrites
    /\ searches = NoSearches

InitGraph ==
    /\ pc = "api"
    /\ nodes = <<>>
    /\ edges = <<>>
    /\ next_id = 1
    /\ last = Call(0, "new", "-", "-", NoEvidence, TRUE)
    /\ FlowIdle
    /\ LLMIdle

AddNode ==
    /\ pc = "api"
    /\ last.n < MaxCalls
    /\ \E id \in GraphIds, type \in {"VARIABLE"} :
          LET node == CausalNode(id, type)
          IN /\ nodes' = add_node(nodes, node)
             /\ last' = Call(last.n + 1, "add_node", id, "-", NoEvidence, add_node_result(nodes, node))
    /\ UNCHANGED <<pc, edges, next_id>>
    /\ UNCHANGED flowVars
    /\ UNCHANGED llmVars
    /\ UNCHANGED <<writes, searches>>

AddEdge ==
    /\ pc = "api"
    /\ last.n < MaxCalls
    /\ \E s \in GraphIds \cup {UnknownId}, t \in GraphIds \cup {UnknownId} :
          LET edge == CausalEdge(next_id, s, t)
          IN /\ edges' = add_edge(edges, edge)
             /\ last' = Call(last.n + 1, "add_edge", s, t, NoEvidence, add_edge_result(edges, edge))
    /\ next_id' = next_id + 1
    /\ UNCHANGED <<pc, nodes>>
    /\ UNCHANGED flowVars
    /\ UNCHANGED llmVars
    /\ UNCHANGED <<writes, searches>>

UpdateEdge ==
    /\ pc = "api"
    /\ last.n < MaxCalls
    /\ \E i \in 1..Len(edges), st \in {"VERIFIED", "UNCLEAR"} :
          LET updated == [edges[i] EXCEPT !.status = st,
                                          !.confidence = 8,
                                          !.investigation_count = @ + 1]
          IN /\ edges' = update_edge(edges, updated)
             /\ last' = Call(last.n + 1, "update_edge", updated.source_id, updated.target_id,
                             NoEvidence, update_edge_result(edges, updated))
    /\ UNCHANGED <<pc, nodes, next_id>>
    /\ UNCHANGED flowVars
    /\ UNCHANGED llmVars
    /\ UNCHANGED <<writes, searches>>

AddEvidence ==
    /\ pc = "api"
    /\ last.n < MaxCalls
    /\ \E i \in 1..Len(edges), id \in EvidenceIds, c \in Contents, b \in BOOLEAN :
          LET ev == Evidence(id, c, b)
          IN /\ edges' = [edges EXCEPT ![i] = add_evidence(@, ev)]
             /\ last' = Call(last.n + 1, "add_evidence", edges[i].source_id, edges[i].target_id,
                             ev, TRUE)
    /\ UNCHANGED <<pc, nodes, next_id>>
    /\ UNCHANGED flowVars
    /\ UNCHANGED llmVars
    /\ UNCHANGED <<writes, searches>>

NextGraph == AddNode \/ AddEdge \/ UpdateEdge \/ AddEvidence

SpecGraph == InitGraph /\ [][NextGraph]_vars

-----------------------------------------------------------------------------
(* The workflow of ParallelCAGGraphBuilder: Spec *)

NoCall == Call(0, "none", "-", "-", NoEvidence, TRUE)

\* create_initial_state
Init ==
    /\ pc = "planner"
    /\ nodes = <<>>
    /\ edges = <<>>
    /\ next_id = 1
    /\ last = NoCall
    /\ focus_edge = <<>>
    /\ supporting_evidence = <<>>
    /\ contradicting_evidence = <<>>
    /\ final_report = "None"
    /\ recursion_depth = 0
    /\ max_depth \in {ShallowDepth, max_recursion_depth}
    /\ stop_reason = "None"
    /\ total_edges_investigated = 0
    /\ node_visit_counts = <<>>
    /\ audit_feedback = <<>>
    /\ action_hashes = <<>>
    /\ error = "None"
    /\ llm_calls = <<>>
    /\ writes = NoWrites
    /\ searches = NoSearches
    /\ LLMIdle

\* a route that does not look at the error field
route_after_audit_ignoring_error(err) == "selector"

\* _route_after_audit
route_after_audit(err) == IF err # "None" THEN "error_handler" ELSE "selector"

\* a route that does not look at the focus edge
route_after_selection_no_focus_test(err, focus) ==
    IF err # "None" THEN "error_handler" ELSE "investigate"

\* _route_after_selection
route_after_selection(err, focus) ==
    IF err # "None" THEN "error_handler"
    ELSE IF focus = <<>> THEN "writer"
    ELSE "investigate"

\* _run_planner, then the edge planner -> auditor
Planner ==
    /\ pc = "planner"
    /\ \/ \E node_data \in PlannerNodeLists, edge_data \in PlannerEdgeLists :
             LET ns == add_nodes(<<>>, node_data)
                 r == add_plan_edges(ns, <<>>, edge_data, next_id)
             IN /\ nodes' = ns
                /\ edges' = r[1]
                /\ next_id' = r[2]
                /\ error' = error
                /\ audit_feedback' = planner_feedback(r[3], r[4])
       \/ /\ nodes' = <<>>
          /\ edges' = <<>>
          /\ next_id' = next_id
          /\ error' = "planner_failed"
          /\ audit_feedback' = <<>>
    /\ node_visit_counts' = merge_counter_map(node_visit_counts,
                                              increment_node_visit("planner"))
    /\ pc' = "auditor"
    /\ llm_calls' = <<"planner">>
    /\ UNCHANGED llmVars
    /\ UNCHANGED <<writes, searches>>
    /\ UNCHANGED <<last, focus_edge, supporting_evidence, contradicting_evidence,
                   final_report, recursion_depth, max_depth, stop_reason,
                   total_edges_investigated, action_hashes>>

\* _run_auditor, then _route_after_audit
Auditor ==
    /\ pc = "auditor"
    /\ LET u == auditor_update(recursion_depth, max_depth, action_hashes,
                               node_visit_counts, edges, total_edges_investigated)
       IN /\ stop_reason' = IF u.stop_reason = <<>> THEN stop_reason ELSE u.stop_reason[1]
          /\ error' = IF u.error = <<>> THEN error ELSE u.error[1]
          /\ audit_feedback' = u.audit_feedback
          /\ pc' = route_after_audit(error')
    /\ llm_calls' = <<>>
    /\ UNCHANGED llmVars
    /\ UNCHANGED <<writes, searches>>
    /\ UNCHANGED <<nodes, edges, next_id, last, focus_edge, supporting_evidence,
                   contradicting_evidence, final_report, recursion_depth, max_depth,
                   total_edges_investigated, node_visit_counts, action_hashes>>

\* the conditional edge after the selector: the node each route leads to
\* ("investigate" leads to the node given, the others to the node of their name)
selection_target(route, investigate_node) ==
    IF route = "investigate" THEN investigate_node ELSE route

\* _run_selector, then _route_after_selection
SelectorStep(investigate_node) ==
    /\ pc = "selector"
    /\ LET u == selector_update(nodes, edges)
       IN /\ focus_edge' = u.focus_edge
          /\ edges' = u.edges
          /\ supporting_evidence' =
                IF u.selected THEN replace_evidence(supporting_evidence, <<>>)
                ELSE supporting_evidence
          /\ contradicting_evidence' =
                IF u.selected THEN replace_evidence(contradicting_evidence, <<>>)
                ELSE contradicting_evidence
          /\ audit_feedback' = u.audit_feedback
          /\ pc' = selection_target(route_after_selection(error, u.focus_edge),
                                     investigate_node)
    /\ node_visit_counts' = merge_counter_map(node_visit_counts,
                                              increment_node_visit("selector"))
    /\ llm_calls' = <<>>
    /\ UNCHANGED llmVars
    /\ UNCHANGED <<writes, searches>>
    /\ UNCHANGED <<nodes, next_id, last, final_report, recursion_depth, max_depth,
                   stop_reason, total_edges_investigated, action_hashes, error>>

\* ParallelCAGGraphBuilder.build: "investigate" leads to the investigate node
Selector == SelectorStep("investigate")

\* CAGGraphBuilder.build: "investigate" leads to the adversary node
SelectorSequential == SelectorStep("adversary")

\* _run_adversary as a node of its own, then the edge adversary -> judge
Adversary ==
    /\ pc = "adversary"
    /\ \E adversary_result \in adversary_updates(focus_edge, action_hashes) :
          /\ contradicting_evidence' =
                 replace_evidence(contradicting_evidence, adversary_result.evidence)
          /\ action_hashes' =
                 merge_action_hashes(action_hashes, adversary_result.action_hashes)
          /\ audit_feedback' = adversary_result.audit_feedback
    /\ node_visit_counts' = merge_counter_map(node_visit_counts,
                                              increment_node_visit("adversary"))
    /\ pc' = "judge"
    /\ llm_calls' = IF focus_edge = <<>> THEN <<>> ELSE <<"adversary">>
    /\ UNCHANGED llmVars
    /\ UNCHANGED <<writes, searches>>
    /\ UNCHANGED <<nodes, edges, next_id, last, focus_edge, supporting_evidence,
                   final_report, recursion_depth, max_depth, stop_reason,
                   total_edges_investigated, error>>

\* an investigation whose tasks attach what they found to the focus edge in
\* the graph
InvestigateWritingGraph ==
    /\ pc = "investigate"
    /\ \E adversary_result \in adversary_updates(focus_edge, action_hashes),
          supporter_result \in supporter_updates(focus_edge) :
          LET merged_visits ==
                  DictUpdate(DictUpdate(node_visit_counts,
                                        increment_node_visit("adversary")),
                             increment_node_visit("supporter"))
          IN /\ contradicting_evidence' =
                    replace_evidence(contradicting_evidence, adversary_result.evidence)
             /\ supporting_evidence' =
                    replace_evidence(supporting_evidence, supporter_result.evidence)
             /\ audit_feedback' = adversary_result.audit_feedback
                                  \o supporter_result.audit_feedback
             /\ node_visit_counts' = merge_counter_map(node_visit_counts, merged_visits)
             /\ edges' = IF focus_edge = <<>> THEN edges
                         ELSE update_edge(edges,
                                  add_all_evidence(
                                      add_all_evidence(focus_edge[1],
                                                       supporter_result.evidence),
                                      adversary_result.evidence))
    /\ pc' = "judge"
    /\ llm_calls' = IF focus_edge = <<>> THEN <<>> ELSE <<"adversary", "supporter">>
    /\ UNCHANGED llmVars
    /\ UNCHANGED <<writes, searches>>
    /\ UNCHANGED <<nodes, next_id, last, focus_edge, final_report,
                   recursion_depth, max_depth, stop_reason, total_edges_investigated,
                   action_hashes, error>>

\* _run_parallel_investigation, then the edge investigate -> judge; when
\* counted, the searches the adversary runs are added to the history
InvestigateStep(counted) ==
    /\ pc = "investigate"
    /\ \E adversary_result \in adversary_updates(focus_edge, action_hashes),
          supporter_result \in supporter_updates(focus_edge) :
          LET merged_visits ==
                  DictUpdate(DictUpdate(node_visit_counts,
                                        increment_node_visit("adversary")),
                             increment_node_visit("supporter"))
          IN /\ contradicting_evidence' =
                    replace_evidence(contradicting_evidence, adversary_result.evidence)
             /\ supporting_evidence' =
                    replace_evidence(supporting_evidence, supporter_result.evidence)
             /\ audit_feedback' = adversary_result.audit_feedback
                                  \o supporter_result.audit_feedback
             /\ node_visit_counts' = merge_counter_map(node_visit_counts, merged_visits)
             /\ searches' = IF counted
                          THEN record_searches(searches, adversary_result.action_hashes)
                          ELSE searches
    /\ pc' = "judge"
    /\ llm_calls' = IF focus_edge = <<>> THEN <<>> ELSE <<"adversary", "supporter">>
    /\ UNCHANGED llmVars
    /\ UNCHANGED writes
    /\ UNCHANGED <<nodes, edges, next_id, last, focus_edge, final_report,
                   recursion_depth, max_depth, stop_reason, total_edges_investigated,
                   action_hashes, error>>

Investigate == InvestigateStep(FALSE)

InvestigateCounted == InvestigateStep(TRUE)

\* _run_judge, then the edge judge -> auditor
Judge ==
    /\ pc = "judge"
    /\ \E u \in judge_updates(edges, focus_edge, supporting_evidence,
                              contradicting_evidence, total_edges_investigated) :
          /\ edges' = u.edges
          /\ focus_edge' = IF u.judged THEN <<>> ELSE focus_edge
          /\ total_edges_investigated' = Min(u.total_edges_investigated, CounterCap)
          /\ audit_feedback' = u.audit_feedback
          /\ llm_calls' = u.llm_calls
    /\ recursion_depth' = Min(increment_counter(recursion_depth, recursion_depth + 1),
                              CounterCap)
    /\ node_visit_counts' = merge_counter_map(node_visit_counts,
                                              increment_node_visit("judge"))
    /\ pc' = "auditor"
    /\ UNCHANGED llmVars
    /\ UNCHANGED <<writes, searches>>
    /\ UNCHANGED <<nodes, next_id, last, supporting_evidence, contradicting_evidence,
                   final_report, max_depth, stop_reason, action_hashes, error>>

\* _run_writer, then the edge writer -> END
Writer ==
    /\ pc = "writer"
    /\ \E report \in writer_reports : final_report' = report
    /\ audit_feedback' = <<"writer_generated">>
    /\ pc' = "END"
    /\ llm_calls' = <<"writer">>
    /\ UNCHANGED llmVars
    /\ UNCHANGED <<writes, searches>>
    /\ UNCHANGED <<nodes, edges, next_id, last, focus_edge, supporting_evidence,
                   contradicting_evidence, recursion_depth, max_depth, stop_reason,
                   total_edges_investigated, node_visit_counts, action_hashes, error>>

\* _handle_error, then the edge error_handler -> END
ErrorHandler ==
    /\ pc = "error_handler"
    /\ \E report \in writer_reports : final_report' = report
    /\ audit_feedback' = <<"partial_report">>
    /\ pc' = "END"
    /\ llm_calls' = <<"writer">>
    /\ UNCHANGED llmVars
    /\ UNCHANGED <<writes, searches>>
    /\ UNCHANGED <<nodes, edges, next_id, last, focus_edge, supporting_evidence,
                   contradicting_evidence, recursion_depth, max_depth, stop_reason,
                   total_edges_investigated, node_visit_counts, action_hashes, error>>

Next ==
    \/ Planner
    \/ Auditor
    \/ Selector
    \/ Investigate
    \/ Judge
    \/ Writer
    \/ ErrorHandler

Spec == Init /\ [][Next]_vars

\* the same workflow, with the history of the adversary's searches kept
NextSearch ==
    \/ Planner
    \/ Auditor
    \/ Selector
    \/ InvestigateCounted
    \/ Judge
    \/ Writer
    \/ ErrorHandler

SpecSearch == Init /\ [][NextSearch]_vars

\* the workflow of CAGGraphBuilder.build: its edges lead from the selector
\* to the adversary and from the adversary to the judge; the supporter node
\* has an edge to the judge and none that leads to it, so it never runs
NextSequential ==
    \/ Planner
    \/ Auditor
    \/ SelectorSequential
    \/ Adversary
    \/ Judge
    \/ Writer
    \/ ErrorHandler

SpecSequential == Init /\ [][NextSequential]_vars

Steps == {"planner", "auditor", "selector", "investigate", "judge", "writer",
          "error_handler", "END"}

\* the workflow moves on to another step
Advance == pc # "END" /\ pc' \in Steps \ {pc}

\* every step of the workflow returns, so a run that is not at END takes its
\* next step.  Each action of Next is enabled exactly at its own step and
\* changes pc, so this is weak fairness of Next, with the enabling condition
\* read off pc
FairSpec == Spec /\ WF_pc(Advance)

-----------------------------------------------------------------------------
(* The reducers folding the partial updates of one superstep: SpecMerge *)

CounterKeys == {"adversary", "supporter"}

\* the dicts with keys from K and values from V, in every insertion order
DictsOver(K, V) ==
    {d \in SeqsUpTo(K \X V, Cardinality(K)) :
        \A i, j \in 1..Len(d) : i # j => d[i][1] # d[j][1]}

h1 == compute_action_hash(1, "q1")

\* the action-hash maps used: {} and {h1: 1}
HashMaps == {<<>>, [h \in {h1} |-> 1]}

\* the partial updates a node can return for the two delta-sum fields
PartialUpdates ==
    [node_visit_counts : DictsOver(CounterKeys, {1, 2}), action_hashes : HashMaps]

\* a state with counts in both fields, and two partial updates to fold in
InitMerge ==
    /\ pc = "merge"
    /\ nodes = <<>>
    /\ edges = <<>>
    /\ next_id = 1
    /\ last = NoCall
    /\ focus_edge = <<>>
    /\ supporting_evidence = <<>>
    /\ contradicting_evidence = <<>>
    /\ final_report = "None"
    /\ recursion_depth = 0
    /\ max_depth = 1
    /\ stop_reason = "None"
    /\ total_edges_investigated = 0
    /\ node_visit_counts \in DictsOver(CounterKeys, {1})
    /\ audit_feedback = <<>>
    /\ action_hashes \in HashMaps
    /\ error = "None"
    /\ llm_calls = <<>>
    /\ \E pending \in [1..2 -> PartialUpdates] :
          writes = [node_visit_counts |-> node_visit_counts,
                    action_hashes |-> action_hashes,
                    pending |-> pending, applied |-> {}]
    /\ searches = NoSearches
    /\ LLMIdle

\* the reducers of ResearchState fold one of the pending updates into the state
Fold ==
    /\ pc = "merge"
    /\ \E i \in (1..Len(writes.pending)) \ writes.applied :
          /\ node_visit_counts' = merge_counter_map(node_visit_counts,
                                                    writes.pending[i].node_visit_counts)
          /\ action_hashes' = merge_action_hashes(action_hashes,
                                                  writes.pending[i].action_hashes)
          /\ writes' = [writes EXCEPT !.applied = @ \cup {i}]
    /\ UNCHANGED searches
    /\ UNCHANGED <<pc, nodes, edges, next_id, last>>
    /\ UNCHANGED <<focus_edge, supporting_evidence, contradicting_evidence,
                   final_report, recursion_depth, max_depth, stop_reason,
                   total_edges_investigated, audit_feedback, error, llm_calls>>
    /\ UNCHANGED llmVars

NextMerge == Fold

SpecMerge == InitMerge /\ [][NextMerge]_vars

-----------------------------------------------------------------------------
(* The Auditor on a state of its own: SpecAudit *)

\* the visit counts the Auditor is given: far from the limit, the two
\* values of the warning, and the limit
AuditCounts == {1, max_node_visits - 2, max_node_visits - 1, max_node_visits}

AuditKeys == {"selector", "judge"}

\* a state between two steps, about to be audited
InitAudit ==
    /\ pc = "auditor"
    /\ nodes \in {add_nodes(<<>>, node_data) : node_data \in PlannerNodeLists}
    /\ edges \in {<<>>, add_edge(<<>>, CausalEdge(1, "A", "B"))}
    /\ next_id = 2
    /\ last = NoCall
    /\ focus_edge = <<>>
    /\ supporting_evidence = <<>>
    /\ contradicting_evidence = <<>>
    /\ final_report = "None"
    /\ recursion_depth \in 0..ShallowDepth
    /\ max_depth \in {ShallowDepth, max_recursion_depth}
    /\ stop_reason = "None"
    /\ total_edges_investigated = 0
    /\ node_visit_counts \in DictsOver(AuditKeys, AuditCounts)
    /\ audit_feedback = <<>>
    /\ action_hashes \in HashMaps
    /\ error = "None"
    /\ llm_calls = <<>>
    /\ writes = NoWrites
    /\ searches = NoSearches
    /\ LLMIdle

NextAudit == Auditor

SpecAudit == InitAudit /\ [][NextAudit]_vars

-----------------------------------------------------------------------------
(* Calls into one shared FallbackLLMAdapter: SpecLLM *)

\* the adapter as constructed, or as two overlapping calls made before have
\* left it: both began on the start provider, one failed there with 429 and
\* Retry-After and returned from the next provider, then the other
\* returned from the start provider
LLMStart ==
    /\ preferred_index = start_index % NumProviders
    /\ cooldown_until_by_index
          \in {<<>>} \cup {[i \in {start_index % NumProviders} |-> s] : s \in RetryAfters}
    /\ now = 0
    /\ call = [t \in Tasks |-> IdleCall]
    /\ hist = NoHistory

InitLLM ==
    /\ pc = "llm"
    /\ nodes = <<>>
    /\ edges = <<>>
    /\ next_id = 1
    /\ last = NoCall
    /\ FlowIdle
    /\ LLMStart

\* a task calls generate_structured: _with_fallback runs up to its first await
CallBegin ==
    /\ pc = "llm"
    /\ \E t \in Tasks :
          /\ call[t].pc # "awaiting"
          /\ hist.calls < MaxLLMCalls
          /\ LET b == with_fallback_begin(preferred_index, cooldown_until_by_index, now)
             IN /\ call' = [call EXCEPT ![t] = b.call]
                /\ cooldown_until_by_index' = b.cooldown
    /\ hist' = [hist EXCEPT !.calls = @ + 1]
    /\ UNCHANGED <<preferred_index, now>>
    /\ UNCHANGED <<pc, nodes, edges, next_id, last>>
    /\ UNCHANGED flowVars
    /\ UNCHANGED <<writes, searches>>

\* the provider's answer arrives: _with_fallback runs on to its next await or
\* to its end
CallResume ==
    /\ pc = "llm"
    /\ \E t \in Tasks, outcome \in Outcomes, s \in RetryAfters :
          /\ call[t].pc = "awaiting"
          /\ LET r == with_fallback_resume(call[t], preferred_index,
                                           cooldown_until_by_index, now, outcome, s)
             IN /\ call' = [call EXCEPT ![t] = r.call]
                /\ preferred_index' = r.preferred
                /\ cooldown_until_by_index' = r.cooldown
          /\ hist' = record_outcome(hist, call[t], outcome)
    /\ UNCHANGED now
    /\ UNCHANGED <<pc, nodes, edges, next_id, last>>
    /\ UNCHANGED flowVars
    /\ UNCHANGED <<writes, searches>>

\* time.monotonic() moves on
Tick ==
    /\ pc = "llm"
    /\ now < MaxTime
    /\ now' = now + 1
    /\ UNCHANGED <<preferred_index, cooldown_until_by_index, call, hist>>
    /\ UNCHANGED <<pc, nodes, edges, next_id, last>>
    /\ UNCHANGED flowVars
    /\ UNCHANGED <<writes, searches>>

NextLLM == CallBegin \/ CallResume \/ Tick

SpecLLM == InitLLM /\ [][NextLLM]_vars

-----------------------------------------------------------------------------
(* The queries of CausalGraph on a given graph: SpecQuery *)

\* node lists as add_node builds them: no id twice
QueryNodeLists ==
    {ns \in SeqsUpTo(NodeIds, Cardinality(NodeIds)) :
        \A i, j \in 1..Len(ns) : i # j => ns[i] # ns[j]}

\* the <<source_id, target_id>> pairs of edges, self-loops and ends that
\* are no nodes included
QueryPairs == (NodeIds \cup {UnknownId}) \X (NodeIds \cup {UnknownId})

\* edge lists as add_edge builds them: no pair twice
QueryPairLists ==
    {ps \in SeqsUpTo(QueryPairs, MaxQueryEdges) :
        \A i, j \in 1..Len(ps) : i # j => ps[i] # ps[j]}

\* the edges of a chain A -> B -> C with A -> C, in any statuses
SummaryPairs == <<<<"A", "B">>, <<"B", "C">>, <<"A", "C">>>>
SummaryStatusLists == SeqsUpTo(Statuses, Len(SummaryPairs))

InitQuery ==
    /\ pc = "query"
    /\ \/ /\ \E ns \in QueryNodeLists :
                nodes = [i \in 1..Len(ns) |-> CausalNode(ns[i], "VARIABLE")]
          /\ \E ps \in QueryPairLists :
                edges = [i \in 1..Len(ps) |-> CausalEdge(i, ps[i][1], ps[i][2])]
       \/ /\ nodes = [i \in 1..3 |-> CausalNode(<<"A", "B", "C">>[i], "VARIABLE")]
          /\ \E sts \in SummaryStatusLists :
                edges = [i \in 1..Len(sts) |->
                            [CausalEdge(i, SummaryPairs[i][1], SummaryPairs[i][2])
                                EXCEPT !.status = sts[i]]]
    /\ next_id = Len(edges) + 1
    /\ last = Call(0, "new", "-", "-", NoEvidence, TRUE)
    /\ FlowIdle
    /\ LLMIdle

\* graph.is_dag(): it reads nodes and edges and assigns to locals only
IsDag ==
    /\ pc = "query"
    /\ last' = Call(1, "is_dag", "-", "-", NoEvidence, is_dag(nodes, edges))
    /\ UNCHANGED <<pc, nodes, edges, next_id>>
    /\ UNCHANGED flowVars
    /\ UNCHANGED llmVars
    /\ UNCHANGED <<writes, searches>>

\* graph.get_verification_summary()
GetVerificationSummary ==
    /\ pc = "query"
    /\ last' = Call(1, "get_verification_summary", "-", "-", NoEvidence,
                    get_verification_summary(edges))
    /\ UNCHANGED <<pc, nodes, edges, next_id>>
    /\ UNCHANGED flowVars
    /\ UNCHANGED llmVars
    /\ UNCHANGED <<writes, searches>>

NextQuery == IsDag \/ GetVerificationSummary

SpecQuery == InitQuery /\ [][NextQuery]_vars

-----------------------------------------------------------------------------
(* Properties of the graph model, checked under SpecGraph *)

\* the pairs of the edges whose two ends are nodes of the graph
EdgePairs(ns, es) ==
    {<<es[i].source_id, es[i].target_id>> : i \in
        {j \in 1..Len(es) : es[j].source_id \in KnownIds(ns)
                            /\ es[j].target_id \in KnownIds(ns)}}

\* the nodes reachable from n in at least one step along the pairs R
RECURSIVE ReachFrom(_, _, _)
ReachFrom(R, frontier, seen) ==
    LET step == {p[2] : p \in {q \in R : q[1] \in frontier}} \ seen
    IN IF step = {} THEN seen ELSE ReachFrom(R, step, seen \cup step)

Acyclic(ns, es) ==
    LET R == EdgePairs(ns, es)
    IN \A n \in KnownIds(ns) : n \notin ReachFrom(R, {n}, {})

UniquePairs(es) ==
    \A i, j \in 1..Len(es) :
        es[i].source_id = es[j].source_id /\ es[i].target_id = es[j].target_id
            => i = j

\* C1: after every add_node / add_edge call the edges between the nodes of
\* the graph contain no directed cycle (self-loops included).
C1_DagAfterEveryCall == pc = "api" => Acyclic(nodes, edges)

\* C8: no two edges of the graph have the same (source_id, target_id), and
\* add_edge on a pair that is already present returns False and leaves the
\* nodes and the edges (the existing edge's status, confidence and evidence
\* included) as they were.
C8_EdgeIdentity ==
    [][ /\ UniquePairs(edges')
        /\ (/\ last'.op = "add_edge"
            /\ last'.n = last.n + 1
            /\ \E i \in 1..Len(edges) : /\ edges[i].source_id = last'.src
                                        /\ edges[i].target_id = last'.tgt)
           => (last'.ret = FALSE /\ edges' = edges /\ nodes' = nodes) ]_vars

\* a duplicate add_edge was refused on an edge that has been judged and
\* carries evidence
C8_Witness ==
    /\ last.op = "add_edge"
    /\ last.ret = FALSE
    /\ \E i \in 1..Len(edges) :
          /\ edges[i].source_id = last.src
          /\ edges[i].target_id = last.tgt
          /\ edges[i].status = "VERIFIED"
          /\ edges[i].supporting_evidence # <<>>

\* C9: every edge of graph.edges has a source_id and a target_id that are
\* ids of nodes of the graph (add_edge refuses any other edge).
C9_EdgesReferenceNodes ==
    pc = "api" =>
        \A i \in 1..Len(edges) : /\ edges[i].source_id \in KnownIds(nodes)
                                 /\ edges[i].target_id \in KnownIds(nodes)

\* the index of the edge the last call addressed
LastEdge(es, c) ==
    CHOOSE i \in 1..Len(es) :
        es[i].source_id = c.src /\ es[i].target_id = c.tgt

SameIdOrContent(list, ev) ==
    \E k \in 1..Len(list) : list[k].id = ev.id \/ list[k].content = ev.content

IsAddEvidenceStep ==
    /\ last'.op = "add_evidence"
    /\ last'.n = last.n + 1

\* C10 as stated: add_evidence of an item whose id or content equals that of
\* an item attached to the edge (in either list) leaves the lengths of both
\* evidence lists of the edge unchanged.
C10_DedupAcrossLists ==
    [][ IsAddEvidenceStep =>
          LET i == LastEdge(edges, last')
          IN (\/ SameIdOrContent(edges[i].supporting_evidence, last'.ev)
              \/ SameIdOrContent(edges[i].contradicting_evidence, last'.ev))
             => /\ Len(edges'[i].supporting_evidence)
                     = Len(edges[i].supporting_evidence)
                /\ Len(edges'[i].contradicting_evidence)
                     = Len(edges[i].contradicting_evidence) ]_vars

\* C10 amended: add_evidence of an item whose id or content equals that of an
\* item of the list its supports_hypothesis flag selects leaves the graph
\* unchanged (so both evidence lists keep their lengths).
C10_DedupWithinList ==
    [][ IsAddEvidenceStep =>
          LET i == LastEdge(edges, last')
              target_list == IF last'.ev.supports_hypothesis
                             THEN edges[i].supporting_evidence
                             ELSE edges[i].contradicting_evidence
          IN SameIdOrContent(target_list, last'.ev) => edges' = edges ]_vars

\* an item was refused because another item of its list has its content
\* under another id
C10_Witness ==
    /\ last.op = "add_evidence"
    /\ last.ev.supports_hypothesis
    /\ \E i \in 1..Len(edges) :
          /\ edges[i].source_id = last.src
          /\ edges[i].target_id = last.tgt
          /\ Len(edges[i].supporting_evidence) = 1
          /\ edges[i].supporting_evidence[1].content = last.ev.content
          /\ edges[i].supporting_evidence[1].id # last.ev.id

-----------------------------------------------------------------------------
(* Properties of the workflow, checked under Spec and FairSpec *)

\* C2: when the Auditor runs with recursion_depth >= max_depth it sets
\* stop_reason to "max_depth" and the step run next is the writer.
C2_DepthStopGoesToWriter ==
    [][ (pc = "auditor" /\ recursion_depth >= max_depth)
           => (stop_reason' = "max_depth" /\ pc' = "writer") ]_vars

\* C3: whenever the Auditor runs on a state in which some step's count in
\* node_visit_counts is at least max_node_visits, the state it leaves has the
\* error field set, whatever the other counts and the recursion depth.
C3_VisitCapSetsError ==
    [][ (/\ pc = "auditor"
         /\ \E i \in 1..Len(node_visit_counts) :
                node_visit_counts[i][2] >= max_node_visits)
           => error' # "None" ]_vars

\* C4: every run reaches END (through the writer or the error handler).
C4_Terminates == <>(pc = "END")

\* a run ended after both edges of the graph went through two cycles each
C4_Witness ==
    /\ pc = "END"
    /\ Len(edges) = 2
    /\ \A i \in 1..Len(edges) : edges[i].investigation_count = 2

\* C5: a run that has ended has final_report set, through the writer as
\* through the error handler, also when the report's model call failed.
C5_ReportAtEnd == pc = "END" => final_report # "None"

\* a run ended through the error handler with the report built from the
\* graph after the model call failed
C5_Witness ==
    /\ pc = "END"
    /\ error # "None"
    /\ audit_feedback = <<"partial_report">>
    /\ final_report = "fallback_report"

\* C6: the edge the selector makes the focus edge was, in the graph the
\* selector ran on, neither VERIFIED nor FALSIFIED and had
\* investigation_count < max_investigations_per_edge.
C6_SelectsInvestigableOnly ==
    [][ (pc = "selector" /\ focus_edge' # <<>>)
           => \E i \in 1..Len(edges) :
                 /\ edges[i].id = focus_edge'[1].id
                 /\ edges[i].status \notin {"VERIFIED", "FALSIFIED"}
                 /\ edges[i].investigation_count < max_investigations_per_edge ]_vars

\* an edge was selected while another edge, B->C, is left out: it is UNCLEAR
\* after max_investigations_per_edge investigations
C6_Witness ==
    /\ pc = "investigate"
    /\ focus_edge # <<>>
    /\ \E i \in 1..Len(edges) :
          /\ edges[i].id # focus_edge[1].id
          /\ edges[i].source_id = "B" /\ edges[i].target_id = "C"
          /\ edges[i].status = "UNCLEAR"
          /\ edges[i].investigation_count >= max_investigations_per_edge

\* the score of the claim
RefBonus(ns, e) ==
    (IF \E k \in 1..Len(ns) : ns[k].id = e.target_id /\ ns[k].node_type = "OUTCOME"
     THEN 30 ELSE 0)
    + (IF \E k \in 1..Len(ns) : ns[k].id = e.source_id /\ ns[k].node_type = "OUTCOME"
       THEN 20 ELSE 0)

RefScore(ns, e) ==
    (CASE e.status = "PROPOSED" -> 100
       [] e.status = "UNCLEAR" -> 50
       [] OTHER -> 0)
    - 20 * e.investigation_count
    + RefBonus(ns, e)

RefCandidates(es) ==
    {i \in 1..Len(es) : /\ es[i].status \notin {"VERIFIED", "FALSIFIED"}
                        /\ es[i].investigation_count < max_investigations_per_edge}

\* the first, in graph.edges order, of the candidates of maximum score
RefBest(ns, es) ==
    CHOOSE i \in RefCandidates(es) :
        /\ \A j \in RefCandidates(es) : RefScore(ns, es[j]) <= RefScore(ns, es[i])
        /\ \A j \in RefCandidates(es) :
              RefScore(ns, es[j]) = RefScore(ns, es[i]) => i <= j

\* C7: when the graph has a candidate, the selector's focus edge is the
\* candidate of maximum score, the first in graph.edges order among those of
\* equal score (a function of the graph alone); with proposed edges A->B and
\* B->C and C an OUTCOME node, B->C is selected first.
C7_SelectsFirstMaximum ==
    [][ (pc = "selector" /\ RefCandidates(edges) # {})
           => /\ focus_edge' # <<>>
              /\ focus_edge'[1].id = edges[RefBest(nodes, edges)].id
              /\ ((/\ Len(edges) = 2
                   /\ \A i \in 1..2 : edges[i].status = "PROPOSED"
                   /\ <<edges[1].source_id, edges[1].target_id>> = <<"A", "B">>
                   /\ <<edges[2].source_id, edges[2].target_id>> = <<"B", "C">>)
                  => <<focus_edge'[1].source_id, focus_edge'[1].target_id>>
                        = <<"B", "C">>) ]_vars

\* the first of two never investigated edges with the same bonus was selected
C7_Witness ==
    /\ pc = "investigate"
    /\ focus_edge # <<>>
    /\ focus_edge[1].investigation_count = 0
    /\ \E i, j \in 1..Len(edges) :
          /\ i < j
          /\ edges[i].id = focus_edge[1].id
          /\ edges[j].status = "PROPOSED"
          /\ RefBonus(nodes, edges[i]) = RefBonus(nodes, edges[j])

-----------------------------------------------------------------------------
(* The judge, the reducers and the fallback layer *)

\* C11: when the judge runs on a focus edge with fewer than
\* min_evidence_for_verdict pieces of evidence in the two buffers together,
\* the edge becomes UNCLEAR with confidence 0.2, the step makes no call to
\* the language model, and the edge's investigation_count and
\* total_edges_investigated each grow by exactly one.
C11_InsufficientEvidenceFloor ==
    [][ (/\ pc = "judge"
         /\ focus_edge # <<>>
         /\ Len(supporting_evidence) + Len(contradicting_evidence)
               < min_evidence_for_verdict)
           => /\ llm_calls' = <<>>
              /\ total_edges_investigated < CounterCap
                    => total_edges_investigated' = total_edges_investigated + 1
              /\ \E i \in 1..Len(edges) :
                    /\ edges[i].id = focus_edge[1].id
                    /\ Len(edges') = Len(edges)
                    /\ edges'[i].id = edges[i].id
                    /\ edges'[i].status = "UNCLEAR"
                    /\ edges'[i].confidence = 2
                    /\ edges'[i].investigation_count
                          = edges[i].investigation_count + 1
                    /\ \A j \in 1..Len(edges) : j # i => edges'[j] = edges[j] ]_vars

\* the judge has just adjudicated an edge that had one piece of evidence
C11_Witness ==
    /\ pc = "auditor"
    /\ audit_feedback = <<"judge_insufficient">>
    /\ llm_calls = <<>>
    /\ Len(supporting_evidence) + Len(contradicting_evidence) = 1
    /\ total_edges_investigated >= 1
    /\ \E i \in 1..Len(edges) :
          /\ edges[i].status = "UNCLEAR"
          /\ edges[i].confidence = 2
          /\ edges[i].investigation_count >= 1

\* the count of key in a dict, 0 when the key is absent
CountOf(d, key) == DictGet(d, key, 0)

\* the count of hash h in an action-hash map, 0 when it is absent
HashCountOf(m, h) == IF h \in DOMAIN m THEN m[h] ELSE 0

\* two dicts with the same keys and the same counts
SameCounts(a, b) ==
    /\ DictKeys(a) = DictKeys(b)
    /\ \A k \in DictKeys(a) : CountOf(a, k) = CountOf(b, k)

\* C12: folding two partial updates of a delta-sum field into the state
\* gives, for every key, existing + delta1 + delta2 (after each fold: the
\* existing count plus the deltas folded in so far), the result is the same
\* whichever update is folded in first, and the deltas {h1: 1} and {h1: 1}
\* give action_hashes[h1] = 2 on an empty map.
C12_DeltaSumFold ==
    pc = "merge" =>
        LET d1 == writes.pending[1]
            d2 == writes.pending[2]
            in1 == IF 1 \in writes.applied THEN 1 ELSE 0
            in2 == IF 2 \in writes.applied THEN 1 ELSE 0
        IN /\ \A k \in CounterKeys :
                 CountOf(node_visit_counts, k)
                    = CountOf(writes.node_visit_counts, k)
                      + in1 * CountOf(d1.node_visit_counts, k)
                      + in2 * CountOf(d2.node_visit_counts, k)
           /\ DictKeys(node_visit_counts) \subseteq CounterKeys
           /\ HashCountOf(action_hashes, h1)
                 = HashCountOf(writes.action_hashes, h1)
                   + in1 * HashCountOf(d1.action_hashes, h1)
                   + in2 * HashCountOf(d2.action_hashes, h1)
           /\ DOMAIN action_hashes \subseteq {h1}
           /\ SameCounts(
                 merge_counter_map(merge_counter_map(writes.node_visit_counts,
                                                     d1.node_visit_counts),
                                   d2.node_visit_counts),
                 merge_counter_map(merge_counter_map(writes.node_visit_counts,
                                                     d2.node_visit_counts),
                                   d1.node_visit_counts))
           /\ merge_action_hashes(merge_action_hashes(writes.action_hashes,
                                                      d1.action_hashes),
                                  d2.action_hashes)
                 = merge_action_hashes(merge_action_hashes(writes.action_hashes,
                                                           d2.action_hashes),
                                       d1.action_hashes)
           /\ (/\ writes.action_hashes = <<>>
               /\ d1.action_hashes = [h \in {h1} |-> 1]
               /\ d2.action_hashes = [h \in {h1} |-> 1]
               /\ writes.applied = {1, 2})
                 => action_hashes[h1] = 2

\* both updates are folded in: each held {h1: 1} and a count for the
\* adversary, which the state had too
C12_Witness ==
    /\ pc = "merge"
    /\ writes.applied = {1, 2}
    /\ writes.action_hashes = <<>>
    /\ \A i \in 1..2 : writes.pending[i].action_hashes = [h \in {h1} |-> 1]
    /\ action_hashes[h1] = 2
    /\ CountOf(writes.node_visit_counts, "adversary") = 1
    /\ CountOf(writes.pending[1].node_visit_counts, "adversary") = 2
    /\ CountOf(writes.pending[2].node_visit_counts, "adversary") = 1
    /\ CountOf(node_visit_counts, "adversary") = 4

\* no _with_fallback call is suspended in an await
Quiet == \A t \in Tasks : call[t].pc # "awaiting"

\* task t enters _with_fallback in this step
Begins(t) == call[t].pc # "awaiting" /\ call'[t].pc = "awaiting" /\ hist'.calls > hist.calls

\* C13: with providers 0, 1, 2 and preferred index 0, after a call that
\* failed on provider 0 with HTTP 429 and Retry-After and then succeeded on
\* provider 1, every later call makes its first attempt on provider 1,
\* before and after the cooldown of provider 0 has expired (as long as
\* provider 1 has not failed since), and provider 0 is the preferred
\* provider again only after a call in which provider 0 itself succeeded.
C13_StickyAfterRateLimit ==
    [][ /\ \A t \in Tasks :
              (Quiet /\ hist.sticky /\ ~hist.one_failed /\ Begins(t))
                 => call'[t].first = 1
        /\ (hist'.sticky /\ Quiet') => preferred_index' # 0 ]_vars

\* C14: at the start of every call to the fallback layer the preferred
\* index is the provider that most recently returned a result (the start
\* index when none has yet); it is never left on a provider that was only
\* attempted and failed, also not after a call in which every provider failed.
C14_PreferredIsLastSuccess ==
    [][ \A t \in Tasks : (Quiet /\ Begins(t)) => preferred_index = hist.last_success ]_vars

\* C15: within one call to the fallback layer each provider is attempted at
\* most once (the attempts made are as many as the providers tried), and the
\* attempts are never more than the providers, whatever fails and whatever
\* is cooling down.
C15_OncePerProvider ==
    \A t \in Tasks :
        /\ call[t].attempts = Cardinality(call[t].tried)
        /\ call[t].attempts <= NumProviders
        /\ call[t].tried \subseteq Providers

\* a call that began on a provider other than the preferred one, which was
\* cooling down, has gone through all the providers
C15_Witness ==
    \E t \in Tasks :
        /\ call[t].attempts = NumProviders
        /\ call[t].tried = Providers
        /\ call[t].first # start_index
        /\ DOMAIN cooldown_until_by_index = Providers
        /\ now > 0

\* C16: a call in which every provider failed with a fallback-eligible
\* error fails with the error of the last provider attempted, and only
\* after every provider has been attempted once.
C16_LastErrorAfterAll ==
    \A t \in Tasks :
        (call[t].pc = "raised" /\ call[t].eligible)
           => /\ call[t].tried = Providers
              /\ call[t].attempts = NumProviders
              /\ call[t].last_error.provider = call[t].idx
              /\ call[t].last_error.kind \in FallbackEligible

\* a call has raised the rate-limit error of provider 2, attempted last
\* after providers 0 and 1
C16_Witness ==
    \E t \in Tasks :
        /\ call[t].pc = "raised"
        /\ call[t].eligible
        /\ call[t].first = 0
        /\ call[t].attempts = NumProviders
        /\ call[t].last_error = [provider |-> 2, kind |-> "rate_limited"]

\* C17: in a session of ParallelCAGGraphBuilder with one shared fallback
\* instance, at most one call into the fallback layer is in flight at any
\* time.
C17_OneCallInFlight ==
    Cardinality({t \in Tasks : call[t].pc = "awaiting"}) <= 1

\* the evidence in the two buffers
Buffered ==
    {supporting_evidence[k] : k \in 1..Len(supporting_evidence)}
    \cup {contradicting_evidence[k] : k \in 1..Len(contradicting_evidence)}

\* C18: at every JUDGE step the two evidence buffers hold only evidence
\* produced by the INVESTIGATE step of the current cycle for the current
\* focus edge: nothing gathered for an edge investigated before, or in an
\* earlier cycle of the same edge, is in them.
C18_BuffersOfThisCycle ==
    pc = "judge" =>
        /\ focus_edge # <<>>
        /\ \A ev \in Buffered : ev.id[2] = investigation(focus_edge)
        /\ \A k \in 1..Len(supporting_evidence) : supporting_evidence[k].id[1] = "sup"
        /\ \A k \in 1..Len(contradicting_evidence) : contradicting_evidence[k].id[1] = "adv"

\* the judge is about to run on the second investigation of an edge, after
\* another edge was investigated, with evidence in both buffers
C18_Witness ==
    /\ pc = "judge"
    /\ focus_edge # <<>>
    /\ focus_edge[1].investigation_count >= 1
    /\ supporting_evidence # <<>>
    /\ contradicting_evidence # <<>>
    /\ \E i \in 1..Len(edges) :
          /\ edges[i].id # focus_edge[1].id
          /\ edges[i].investigation_count >= 1
          /\ edges[i].supporting_evidence # <<>>

\* C19: the adversary and the supporter leave the causal graph as it is:
\* across an INVESTIGATE step no node and no edge (status, confidence,
\* investigation_count, attached evidence) changes; only the planner, the
\* selector and the judge change the graph.
C19_InvestigateKeepsGraph ==
    [][ /\ pc = "investigate" => (nodes' = nodes /\ edges' = edges)
        /\ (nodes' # nodes \/ edges' # edges)
              => pc \in {"planner", "selector", "judge"} ]_vars

\* an investigation has brought evidence for the focus edge, which is in
\* the graph as INVESTIGATING with no evidence attached yet
C19_Witness ==
    /\ pc = "judge"
    /\ focus_edge # <<>>
    /\ supporting_evidence # <<>>
    /\ contradicting_evidence # <<>>
    /\ \E i \in 1..Len(edges) :
          /\ edges[i].id = focus_edge[1].id
          /\ edges[i].status = "INVESTIGATING"
          /\ edges[i].supporting_evidence = <<>>
          /\ edges[i].contradicting_evidence = <<>>

\* C20: ERROR is absorbing: once the error field is set (by the planner or
\* by the Auditor's critical condition) it stays set, no SELECT, INVESTIGATE
\* or JUDGE step follows, the next routing decision goes to the error
\* handler, and the error handler ends the run.
C20_ErrorAbsorbing ==
    [][ error # "None"
           => /\ error' # "None"
              /\ pc \in {"auditor", "error_handler", "END"}
              /\ pc = "auditor" => pc' = "error_handler"
              /\ pc = "error_handler" => pc' = "END" ]_vars

\* the run has ended through the error handler after the Auditor found a
\* step visited too often, investigations having been made before
C20_Witness ==
    /\ pc = "END"
    /\ error = "critical"
    /\ audit_feedback = <<"partial_report">>
    /\ total_edges_investigated >= 1

-----------------------------------------------------------------------------
(* The Auditor, cooldowns, and the judge and selector steps *)

\* the counts of node_visit_counts
VisitCounts == {node_visit_counts[i][2] : i \in 1..Len(node_visit_counts)}

\* every count is below max_node_visits and the largest is at least
\* max_node_visits - 2
NearVisitCap ==
    /\ \A c \in VisitCounts : c < max_node_visits
    /\ \E c \in VisitCounts : c >= max_node_visits - 2

\* the Auditor's update warns about visits, sets no error, and the selector
\* runs next
WarnsOnly ==
    /\ \E k \in 1..Len(audit_feedback') : audit_feedback'[k] = "visit_warning"
    /\ error' = "None"
    /\ pc' = "selector"

FailedWith(t, kind) ==
    /\ call[t].pc = "awaiting"
    /\ call'[t] # call[t]
    /\ call'[t].pc # "returned"
    /\ call'[t].last_error = [provider |-> call[t].idx, kind |-> kind]

\* provider p is cooling down at time t
Cooling(cooldown, t, p) == p \in DOMAIN cooldown /\ t < cooldown[p]

\* C22: whenever an attempt on a provider fails with HTTP 429 and a
\* Retry-After of s > 0 seconds, the provider is in cooldown until the time
\* of the failure plus s and is reported as cooling down by a check made
\* before that time, for every provider attempted in the call, the last
\* one included.
C22_RetryAfterCooldown ==
    [][ \A t \in Tasks :
          FailedWith(t, "rate_limited")
             => /\ call[t].idx \in DOMAIN cooldown_until_by_index'
                /\ \E s \in RetryAfters :
                      cooldown_until_by_index'[call[t].idx] = now + s
                /\ is_in_cooldown(cooldown_until_by_index', now, call[t].idx)[1] ]_vars

\* C23: whenever an attempt on a provider fails with a transient-classified
\* failure other than 429 with Retry-After (a transient HTTP status, a
\* transport or timeout failure, a response-parsing failure), the provider
\* is put in cooldown for cooldown_seconds_default.
C23_DefaultCooldown ==
    [][ \A t \in Tasks, kind \in {"transient", "timeout"} :
          FailedWith(t, kind)
             => /\ call[t].idx \in DOMAIN cooldown_until_by_index'
                /\ cooldown_until_by_index'[call[t].idx]
                      = now + cooldown_seconds_default ]_vars

\* the call of task t goes on to a provider it has not tried yet
AttemptsNext(t) ==
    /\ call'[t].pc = "awaiting"
    /\ call'[t].idx \notin call[t].tried
    /\ call'[t].tried = call[t].tried \cup {call'[t].idx}
    /\ call'[t].attempts = call[t].attempts + 1

\* C24 as stated: after every failure wrapped in AdapterError, whatever is
\* under it (an HTTP status such as 401 or 403 included), the call attempts
\* the next untried provider as long as one is left.
C24_AdapterErrorFallsBack ==
    [][ \A t \in Tasks,
           kind \in {"rate_limited", "transient", "timeout", "adapter_error", "denied"} :
          (FailedWith(t, kind) /\ call[t].tried # Providers) => AttemptsNext(t) ]_vars

\* C24, amended: the same for every failure wrapped in AdapterError except
\* one over an HTTP status that is neither transient nor model-not-found.
C24_EligibleErrorFallsBack ==
    [][ \A t \in Tasks, kind \in {"rate_limited", "transient", "timeout", "adapter_error"} :
          (FailedWith(t, kind) /\ call[t].tried # Providers) => AttemptsNext(t) ]_vars

\* a call is on provider 2 after an AdapterError without HTTP status on
\* provider 0 and a decoding error on provider 1
C24_Witness ==
    \E t \in Tasks :
        /\ call[t].pc = "awaiting"
        /\ call[t].first = 0
        /\ call[t].tried = Providers
        /\ call[t].idx = 2
        /\ call[t].last_error = [provider |-> 1, kind |-> "timeout"]
        /\ 0 \notin DOMAIN cooldown_until_by_index

\* task t starts an attempt on a provider in this step, having tried the
\* providers in before
StartsAttempt(t, before) ==
    \/ /\ Begins(t)
       /\ before = {}
    \/ /\ call[t].pc = "awaiting"
       /\ call'[t].pc = "awaiting"
       /\ call'[t].attempts > call[t].attempts
       /\ before = call[t].tried

\* C25: a call never attempts a provider that is cooling down while there
\* is a provider that is neither cooling down nor tried in this call, at the
\* first attempt (the preferred provider cooling down) and at every advance
\* after a failure.
C25_AvoidsCoolingProviders ==
    [][ \A t \in Tasks, before \in SUBSET Providers :
          (StartsAttempt(t, before)
           /\ Cooling(cooldown_until_by_index', now, call'[t].idx))
             => \A p \in Providers \ before :
                   Cooling(cooldown_until_by_index', now, p) ]_vars

\* a call has made its first attempt on provider 1 because the preferred
\* provider 0 is cooling down, and the other call, after a failure on
\* provider 1, has gone on to provider 2
C25_Witness ==
    /\ preferred_index = 2
    /\ Cooling(cooldown_until_by_index, now, 0)
    /\ Cooling(cooldown_until_by_index, now, 1)
    /\ call["adversary"].pc = "awaiting"
    /\ call["adversary"].attempts = 1
    /\ call["adversary"].first = 1
    /\ call["supporter"].pc = "awaiting"
    /\ call["supporter"].first = 1
    /\ call["supporter"].idx = 2

\* the place in graph.edges of the focus edge, 0 when it is not there
FocusIndex ==
    IF focus_edge = <<>> THEN 0
    ELSE get_edge(edges, focus_edge[1].source_id, focus_edge[1].target_id)

\* C26: when the call to the model fails during JUDGE, the judge step does
\* not raise: the focus edge becomes UNCLEAR with confidence 0.3, its
\* investigation_count grows by one, the error field stays unset, and the
\* step run next is the Auditor.
C26_JudgeSurvivesLLMFailure ==
    [][ (pc = "judge" /\ audit_feedback' = <<"judge_llm_failed">>)
           => /\ FocusIndex # 0
              /\ edges'[FocusIndex].id = focus_edge[1].id
              /\ edges'[FocusIndex].status = "UNCLEAR"
              /\ edges'[FocusIndex].confidence = 3
              /\ edges'[FocusIndex].investigation_count
                    = edges[FocusIndex].investigation_count + 1
              /\ error = "None"
              /\ error' = "None"
              /\ pc' = "auditor" ]_vars

\* the judge's call to the model has failed on an edge with evidence on
\* both sides, and the Auditor runs next
C26_Witness ==
    /\ pc = "auditor"
    /\ audit_feedback = <<"judge_llm_failed">>
    /\ llm_calls = <<"judge">>
    /\ error = "None"
    /\ focus_edge = <<>>
    /\ \E i \in 1..Len(edges) :
          /\ edges[i].status = "UNCLEAR"
          /\ edges[i].confidence = 3
          /\ edges[i].supporting_evidence # <<>>
          /\ edges[i].contradicting_evidence # <<>>

\* C27: after every JUDGE step that had a focus edge, focus_edge is None,
\* the focus edge's status is VERIFIED, FALSIFIED or UNCLEAR, its
\* investigation_count and total_edges_investigated have each grown by
\* exactly one, and every other edge of the graph is unchanged.
C27_JudgeFrame ==
    [][ (pc = "judge" /\ focus_edge # <<>>)
           => /\ focus_edge' = <<>>
              /\ FocusIndex # 0
              /\ Len(edges') = Len(edges)
              /\ edges'[FocusIndex].id = focus_edge[1].id
              /\ edges'[FocusIndex].status \in {"VERIFIED", "FALSIFIED", "UNCLEAR"}
              /\ edges'[FocusIndex].investigation_count
                    = edges[FocusIndex].investigation_count + 1
              /\ total_edges_investigated < CounterCap
                    => total_edges_investigated' = total_edges_investigated + 1
              /\ \A j \in 1..Len(edges) : j # FocusIndex => edges'[j] = edges[j]
              /\ nodes' = nodes ]_vars

\* the judge has just given a verdict on the second edge of a graph of two,
\* the first one having been judged before
C27_Witness ==
    /\ pc = "auditor"
    /\ focus_edge = <<>>
    /\ audit_feedback = <<"judge_verdict">>
    /\ total_edges_investigated = 2
    /\ Len(edges) = 2
    /\ edges[1].investigation_count = 1
    /\ edges[2].investigation_count = 1
    /\ edges[1].status = "VERIFIED"
    /\ edges[2].status = "FALSIFIED"

\* C28: at every step boundary an edge has status INVESTIGATING if and only
\* if it is the current focus edge: the selector marks exactly the selected
\* edge (and clears both evidence buffers), at most one edge is
\* INVESTIGATING at a time, and none is when the run has ended.
C28_InvestigatingIsFocus ==
    /\ \A i \in 1..Len(edges) :
          edges[i].status = "INVESTIGATING"
             <=> (focus_edge # <<>> /\ focus_edge[1].id = edges[i].id)
    /\ focus_edge # <<>> => FocusIndex # 0 /\ focus_edge[1].status = "INVESTIGATING"
    /\ Cardinality({i \in 1..Len(edges) : edges[i].status = "INVESTIGATING"}) <= 1
    /\ pc = "END" => \A i \in 1..Len(edges) : edges[i].status # "INVESTIGATING"
    /\ (pc = "investigate" /\ focus_edge # <<>>)
          => (supporting_evidence = <<>> /\ contradicting_evidence = <<>>)

\* the selector has marked the second edge of the graph, the first one
\* having been investigated with evidence before
C28_Witness ==
    /\ pc = "investigate"
    /\ Len(edges) = 2
    /\ focus_edge # <<>>
    /\ focus_edge[1].id = edges[2].id
    /\ edges[2].status = "INVESTIGATING"
    /\ edges[1].status = "UNCLEAR"
    /\ edges[1].supporting_evidence # <<>>
    /\ supporting_evidence = <<>>

\* C29: after a SELECT step with no error set, the step run next is the
\* writer if and only if no edge is investigable (no edges, or every edge
\* VERIFIED, FALSIFIED or with investigation_count at
\* max_investigations_per_edge); otherwise it is INVESTIGATE, with a focus
\* edge.
C29_SelectRoutes ==
    [][ (pc = "selector" /\ error = "None")
           => /\ pc' = "writer" <=> RefCandidates(edges) = {}
              /\ RefCandidates(edges) # {}
                    => (pc' = "investigate" /\ focus_edge' # <<>>) ]_vars

\* the selector has sent the run to the writer with one edge VERIFIED and
\* the other UNCLEAR after max_investigations_per_edge investigations
C29_Witness ==
    /\ pc = "writer"
    /\ error = "None"
    /\ audit_feedback = <<"selector_all_resolved">>
    /\ Len(edges) = 2
    /\ \E i, j \in 1..2 :
          /\ edges[i].status = "VERIFIED"
          /\ edges[j].status = "UNCLEAR"
          /\ edges[j].investigation_count = max_investigations_per_edge

\* C30: over a whole session of the parallel workflow, no search with the
\* same (edge id, query) is run by the adversary more than 2 times, later
\* investigation cycles of the same edge included.
C30_SearchAtMostTwice ==
    \A h \in DOMAIN searches : searches[h] <= 2

-----------------------------------------------------------------------------
(* Counters, the planner's graph, and the summaries *)

\* C31: after every INVESTIGATE step the state's action_hashes records the
\* searches the step has run: action_hashes[h] is the number of times the
\* search h has been run in the session.
C31_HashesCountSearches ==
    \A h \in DOMAIN searches :
        Min(SearchCap, HashCountOf(action_hashes, h)) = searches[h]

\* C32: the number of completed investigation cycles never exceeds
\* max_depth: recursion_depth, which every JUDGE step increments, is at most
\* max_depth in every reachable state of the workflow.
C32_DepthWithinMax ==
    recursion_depth <= max_depth

\* C33: in every state of the workflow after PLAN, whatever node and edge
\* lists the planner's model call returned (duplicate pairs, unknown or
\* missing endpoint ids, self-loops and cycles included), the causal graph
\* is a DAG and both ends of every edge are ids of nodes of the graph; the
\* planner drops the offending edges and sets no error for them.
C33_PlannedGraphIsDag ==
    /\ Acyclic(nodes, edges)
    /\ \A i \in 1..Len(edges) :
          /\ edges[i].source_id \in KnownIds(nodes)
          /\ edges[i].target_id \in KnownIds(nodes)
    /\ (pc = "auditor" /\ audit_feedback # <<>>
           /\ audit_feedback[1] = "planner_created") => error = "None"

\* the planner has kept one edge of its model's answer and removed another
\* that closed a cycle, and has set no error
C33_Witness ==
    /\ pc = "auditor"
    /\ audit_feedback = <<"planner_created", "planner_removed_cyclic">>
    /\ Len(edges) = 1
    /\ error = "None"

\* C34: in the workflow of CAGGraphBuilder.build every JUDGE step runs only
\* after both the adversary and the supporter have completed for the focus
\* edge in the same cycle: when the judge is about to run on a focus edge,
\* each of the two roles has run once more than the judge.
C34_JudgeAfterBothRoles ==
    (pc = "judge" /\ focus_edge # <<>>)
       => /\ CountOf(node_visit_counts, "adversary")
                = CountOf(node_visit_counts, "judge") + 1
          /\ CountOf(node_visit_counts, "supporter")
                = CountOf(node_visit_counts, "judge") + 1

\* C35: is_dag returns True exactly when the edges between known nodes have
\* no directed cycle (a self-loop is a cycle), as a test by reachability
\* tells, and it leaves graph.nodes and graph.edges as they were whatever it
\* returns.
C35_IsDagMatchesReachability ==
    /\ [](last.op = "is_dag" => (last.ret <=> Acyclic(nodes, edges)))
    /\ [][(last'.op = "is_dag" /\ last' # last)
             => (nodes' = nodes /\ edges' = edges)]_vars

\* is_dag has returned False on the cycle A -> B -> C -> A
C35_Witness ==
    /\ last.op = "is_dag"
    /\ last.ret = FALSE
    /\ Len(nodes) = 3
    /\ Len(edges) = 3
    /\ {<<edges[i].source_id, edges[i].target_id>> : i \in 1..3}
          = {<<"A", "B">>, <<"B", "C">>, <<"C", "A">>}

\* C36: at every step boundary of the parallel workflow node_visit_counts[s]
\* is the number of times the step s has run so far.  The planner runs once,
\* at the start, and recursion_depth counts the JUDGE steps.
C36_VisitCountsAreExecutions ==
    /\ CountOf(node_visit_counts, "planner") = (IF pc = "planner" THEN 0 ELSE 1)
    /\ recursion_depth < CounterCap
          => CountOf(node_visit_counts, "judge") = recursion_depth

\* C37: once the status of an edge is VERIFIED or FALSIFIED the edge never
\* changes again in the session: its status, confidence, investigation_count
\* and evidence lists are the same after every later step.
C37_ResolvedEdgesStay ==
    [][ \A i \in 1..Len(edges) :
           edges[i].status \in {"VERIFIED", "FALSIFIED"}
              => /\ i <= Len(edges')
                 /\ edges'[i] = edges[i] ]_vars

\* an edge was VERIFIED in the first cycle and a second edge has since been
\* selected, investigated and judged
C37_Witness ==
    /\ pc = "auditor"
    /\ recursion_depth = 2
    /\ Len(edges) = 2
    /\ \E i, j \in 1..2 :
          /\ i # j
          /\ edges[i].status = "VERIFIED"
          /\ edges[i].investigation_count = 1
          /\ edges[i].supporting_evidence # <<>>
          /\ edges[j].status = "UNCLEAR"
          /\ edges[j].investigation_count = 1

\* the sum of investigation_count over the edges
RECURSIVE SumInvestigations(_)
SumInvestigations(es) ==
    IF es = <<>> THEN 0
    ELSE Head(es).investigation_count + SumInvestigations(Tail(es))

\* C38: in every reachable state of the workflow every edge's
\* investigation_count is at most max_investigations_per_edge, and
\* total_edges_investigated is the sum of investigation_count over the edges
\* of the graph.
C38_InvestigationCounts ==
    /\ \A i \in 1..Len(edges) :
          edges[i].investigation_count <= max_investigations_per_edge
    /\ total_edges_investigated < CounterCap
          => total_edges_investigated = SumInvestigations(edges)

\* both edges of the graph have been investigated
\* max_investigations_per_edge times
C38_Witness ==
    /\ Len(edges) = 2
    /\ \A i \in 1..2 : edges[i].investigation_count = max_investigations_per_edge
    /\ total_edges_investigated = 2 * max_investigations_per_edge

\* C39: for every graph, get_verification_summary returns counts verified,
\* falsified, unclear, proposed and investigating that sum to total_edges,
\* with completion_rate = (verified + falsified) / total_edges * 100, and
\* completion_rate = 0 when the graph has no edges.
C39_SummaryAddsUp ==
    last.op = "get_verification_summary"
       => LET s == last.ret
              n(st) == Cardinality({i \in 1..Len(edges) : edges[i].status = st})
          IN /\ s.total_edges = Len(edges)
             /\ s.verified = n("VERIFIED")
             /\ s.falsified = n("FALSIFIED")
             /\ s.unclear = n("UNCLEAR")
             /\ s.proposed = n("PROPOSED")
             /\ s.investigating = n("INVESTIGATING")
             /\ s.verified + s.falsified + s.unclear + s.proposed + s.investigating
                   = s.total_edges
             /\ s.total_edges = 0 => s.completion_rate[1] = 0
             /\ s.total_edges > 0
                   => s.completion_rate[1] * s.total_edges
                         = (s.verified + s.falsified) * 100 * s.completion_rate[2]

\* the summary of a graph with one edge VERIFIED, one FALSIFIED and one
\* INVESTIGATING: two of three edges are complete
C39_Witness ==
    /\ last.op = "get_verification_summary"
    /\ last.ret.total_edges = 3
    /\ last.ret.verified = 1
    /\ last.ret.falsified = 1
    /\ last.ret.investigating = 1
    /\ last.ret.completion_rate = <<200, 3>>

====
